---- MODULE Spec2Model ----
(***************************************************************************)
(* A model of proxtagger's conditional-tagging core: the rule data model   *)
(* (models.py), the rule engine (engine.py), the rule store and the        *)
(* execution history (storage.py), the scheduler (scheduler.py), the       *)
(* route handlers that drive them (routes.py) and the tag helpers          *)
(* (tag_utils.py).                                                         *)
(*                                                                         *)
(* Representation of Python values:                                        *)
(*  - a dict is a function whose DOMAIN is the set of its keys;            *)
(*  - a list is a sequence;                                                *)
(*  - None is the record NoneV; a scalar read out of a resource record is  *)
(*    tagged with its Python type (PyStr, PyNum);                          *)
(*  - a tag string such as "a;;B" is the sequence of its segments between  *)
(*    semicolons, <<"a", "", "B">>, so the empty string is <<"">>;         *)
(*  - a dotted field path such as "config.cores" is the sequence of its    *)
(*    parts, <<"config", "cores">>;                                        *)
(*  - a cron expression is the sequence of its whitespace-separated        *)
(*    fields, so the empty string is <<>>;                                 *)
(*  - a timestamp is a reading of the logical clock, and 0 stands for      *)
(*    "never" (last_run = None).                                           *)
(***************************************************************************)
EXTENDS Integers, Sequences, FiniteSets, TLC

VARIABLES
    rules,              \* routes.storage.rules: the route layer's RuleStorage
    file,               \* data/conditional_rules.json, as the rule dict it loads to
    history,            \* data/rule_execution_history.json: rule id -> list of results
    scheduler_instance, \* scheduler.scheduler_instance: 0 is None, n the n-th RuleScheduler
    srules,             \* scheduler_instance.storage.rules
    jobs,               \* scheduler_instance.jobs: the rule ids with a registered job
    nextId,             \* the next fresh rule id (uuid4 never repeats)
    clock,              \* the wall clock: it advances with every request and firing
    lastCall,           \* the last direct call of a RuleStorage method, and whether it raised
    lastExec,           \* the last execution (job firing or manual execute) and what it did
    deleted,            \* the rule ids whose delete request has completed
    pc, ret,            \* get_scheduler(): each thread's position and the instance it got
    lockHolder,         \* scheduler_lock: 0 is free, t the thread holding it
    nReloads,           \* how many times reload_schedules has run
    eng,                \* one evaluate_rule call: its inputs, result and mutation calls
    appended,           \* the log of the direct calls: rule id -> the results handed to
                        \* add_execution (SpecHistory) or, for a stored rule, to
                        \* update_rule_stats (SpecStore), oldest first
    stopped,            \* scheduler_instance.shutdown() has been called
    frame               \* the locals of each thread's execution: the result it evaluated
                        \* and the history its add_execution call loaded

vars == <<rules, file, history, scheduler_instance, srules, jobs, nextId, clock,
          lastCall, lastExec, deleted, pc, ret, lockHolder, nReloads, eng, appended,
          frame, stopped>>

----------------------------------------------------------------------------
(* Bounds of the model *)

\* the clock reading at which no further request or firing is taken
MaxClock == 4
\* the threads that call get_scheduler()
NThreads == 2
\* the rules a store handed to reload_schedules holds at most
MaxStored == 2
\* the results appended to the execution history
MaxAppends == 102

----------------------------------------------------------------------------
(* Python helpers *)

NoneV == [t |-> "none", v |-> "None"]
PyStr(s) == [t |-> "str", v |-> s]
PyNum(n) == [t |-> "num", v |-> n]

EmptyDict == <<>>

\* d.setdefault(k, []).append(x)
DictAppend(d, k, x) ==
    IF k \in DOMAIN d THEN [d EXCEPT ![k] = Append(@, x)]
    ELSE [j \in DOMAIN d \cup {k} |-> IF j = k THEN <<x>> ELSE d[j]]

\* del d[k]
DictDel(d, k) == [j \in DOMAIN d \ {k} |-> d[j]]

\* d[k] = x
DictPut(d, k, x) == [j \in DOMAIN d \cup {k} |-> IF j = k THEN x ELSE d[j]]

\* the set of a list's elements
Range(s) == {s[i] : i \in 1..Len(s)}

RECURSIVE SumLens(_, _)
\* sum(len(tags) for tags in d.values()), over the keys in ks
SumLens(d, ks) ==
    IF ks = {} THEN 0
    ELSE LET k == CHOOSE x \in ks : TRUE
         IN Len(d[k]) + SumLens(d, ks \ {k})

\* str.lower() on the tag and value alphabet of the model
Lower(s) ==
    CASE s = "Web" -> "web"
      [] s = "Running" -> "running"
      [] s = "WEB" -> "web"
      [] s = "WE" -> "we"
      [] s = "STRASSE" -> "strasse"
      [] s = "RUNNING" -> "running"
      [] s \in {"None", "NONE"} -> "none"
      [] s = "ON" -> "on"
      [] OTHER -> s

\* str.upper() on the value alphabet of the model; the upper case of the sharp s is "SS"
Upper(s) ==
    CASE s \in {"web", "Web"} -> "WEB"
      [] s = "we" -> "WE"
      [] s \in {"straße", "strasse"} -> "STRASSE"
      [] s \in {"running", "Running"} -> "RUNNING"
      [] s \in {"none", "None"} -> "NONE"
      [] s = "on" -> "ON"
      [] OTHER -> s

\* needle in hay, for two strings of the value alphabet of the model
Contains(hay, needle) ==
    \/ hay = needle
    \/ needle = ""
    \/ needle = "we" /\ hay = "web"
    \/ needle = "WE" /\ hay = "WEB"
    \/ needle = "on" /\ hay = "none"
    \/ needle = "ON" /\ hay = "NONE"

\* str.strip() on the tag alphabet of the model
Strip(s) ==
    CASE s = " db" -> "db"
      [] s = " " -> ""
      [] OTHER -> s

\* str.split(";") on the tag alphabet of the model, as a set
Segments(s) ==
    CASE s = "a;b" -> {"a", "b"}
      [] OTHER -> {s}

----------------------------------------------------------------------------
(* tag_utils.py *)

\* parse_tags keeping the segments as they are split, the empty ones dropped
parse_tags_unstripped(tags_string) == SelectSeq(tags_string, LAMBDA seg : seg # "")

\* parse_tags: the stripped non-empty segments, in order
parse_tags(tags_string) ==
    LET stripped == [i \in 1..Len(tags_string) |-> Strip(tags_string[i])]
    IN SelectSeq(stripped, LAMBDA seg : seg # "")

\* format_tags: the stripped non-empty tags joined by ";"
format_tags(tags_list) ==
    LET stripped == [i \in 1..Len(tags_list) |-> Strip(tags_list[i])]
        clean == SelectSeq(stripped, LAMBDA seg : seg # "")
    IN IF clean = <<>> THEN <<"">> ELSE clean

----------------------------------------------------------------------------
(* models.py *)

\* OperatorType: the operators RuleCondition accepts
OperatorType ==
    {"equals", "not_equals", "contains", "not_contains", "greater_than", "less_than",
     "greater_equals", "less_equals", "regex", "in", "not_in"}

\* LogicalOperator
LogicalOperator == {"AND", "OR"}

\* the fields of a crontab expression that parse
CronFieldOK(f) == f \in {"*", "0", "*/5"}

\* CronTrigger.from_crontab(cron) returns (TRUE) or raises (FALSE): five fields, each valid
CronParses(cron) == Len(cron) = 5 /\ \A i \in 1..Len(cron) : CronFieldOK(cron[i])

\* RuleConditionGroup.from_dict raises ValueError: LogicalOperator(operator) or
\* OperatorType(operator) of one of its conditions rejects the value
ConditionsFromDictRaises(data) ==
    LET operator == IF "operator" \in DOMAIN data THEN data.operator ELSE "AND"
        conds == IF "rules" \in DOMAIN data THEN data.rules ELSE <<>>
    IN \/ operator \notin LogicalOperator
       \/ \E i \in 1..Len(conds) : conds[i].operator \notin OperatorType

\* RuleConditionGroup.from_dict
RuleConditionGroup_from_dict(data) ==
    [operator |-> IF "operator" \in DOMAIN data THEN data.operator ELSE "AND",
     conditions |-> IF "rules" \in DOMAIN data THEN data.rules ELSE <<>>]

\* RuleAction.from_dict
RuleAction_from_dict(data) ==
    [add_tags |-> IF "add_tags" \in DOMAIN data THEN data.add_tags ELSE <<>>,
     remove_tags |-> IF "remove_tags" \in DOMAIN data THEN data.remove_tags ELSE <<>>,
     else_add_tags |-> IF "else_add_tags" \in DOMAIN data THEN data.else_add_tags ELSE <<>>,
     else_remove_tags |->
        IF "else_remove_tags" \in DOMAIN data THEN data.else_remove_tags ELSE <<>>]

\* RuleSchedule.from_dict
RuleSchedule_from_dict(data) ==
    [enabled |-> IF "enabled" \in DOMAIN data THEN data.enabled ELSE FALSE,
     cron |-> IF "cron" \in DOMAIN data THEN data.cron ELSE <<>>]

\* ConditionalRule.__init__: a fresh id, both timestamps now, no run yet, zero stats
ConditionalRule(rule_id, name, description, enabled, now) ==
    [id |-> rule_id,
     name |-> name,
     description |-> description,
     enabled |-> enabled,
     conditions |-> [operator |-> "AND", conditions |-> <<>>],
     actions |-> [add_tags |-> <<>>, remove_tags |-> <<>>,
                  else_add_tags |-> <<>>, else_remove_tags |-> <<>>],
     schedule |-> [enabled |-> FALSE, cron |-> <<>>],
     created_at |-> now,
     updated_at |-> now,
     last_run |-> 0,
     stats |-> [total_matches |-> 0, tags_added |-> 0, tags_removed |-> 0,
                last_execution_time |-> 0]]

\* ConditionalRule.validate: the list of errors
validate(rule) ==
    LET e1 == IF rule.name = "" THEN <<"Rule name is required">> ELSE <<>>
        e2 == IF rule.conditions.conditions = <<>>
              THEN <<"At least one condition is required">> ELSE <<>>
        e3 == IF /\ rule.actions.add_tags = <<>>
                 /\ rule.actions.remove_tags = <<>>
                 /\ rule.actions.else_add_tags = <<>>
                 /\ rule.actions.else_remove_tags = <<>>
              THEN <<"At least one action is required">> ELSE <<>>
        e4 == IF rule.schedule.enabled
              THEN IF rule.schedule.cron = <<>>
                   THEN <<"Cron expression is required when schedule is enabled">>
                   ELSE IF ~CronParses(rule.schedule.cron)
                        THEN <<"Invalid cron expression">> ELSE <<>>
              ELSE <<>>
    IN e1 \o e2 \o e3 \o e4

\* ExecutionResult.__init__
ExecutionResult(rule_id, rule_name, now) ==
    [rule_id |-> rule_id,
     rule_name |-> rule_name,
     success |-> TRUE,
     timestamp |-> now,
     matched_vms |-> <<>>,
     tags_added |-> EmptyDict,
     tags_removed |-> EmptyDict,
     tags_already_present |-> EmptyDict,
     errors |-> <<>>,
     execution_time |-> 0,
     dry_run |-> FALSE]

----------------------------------------------------------------------------
(* storage.py: RuleStorage.  A method is an operator from the instance's    *)
(* rule dict (store) and the file to the outcome: the dict and the file     *)
(* afterwards, whether it raised, and what it returned.  wfail says that    *)
(* opening the file for writing fails in this call.                         *)

\* RuleStorage._load_rules: the document's rules keyed by id.  The file is kept as the
\* collection it loads to: from_dict restores every field to_dict wrote
load_rules(f) == f

\* RuleStorage._save_rules: the whole collection is written, or open() raises, the
\* file stays as it was and the error is re-raised
save_rules(store, f, wfail) ==
    [file |-> IF wfail THEN f ELSE store, raised |-> wfail]

\* the duplicate-name loop of create_rule and update_rule
NameTaken(store, rule) ==
    \E k \in DOMAIN store : store[k].name = rule.name /\ store[k].id # rule.id

\* RuleStorage.create_rule
create_rule(store, f, rule, wfail) ==
    IF validate(rule) # <<>> THEN
        [rules |-> store, file |-> f, raised |-> TRUE, ret |-> NoneV]
    ELSE IF NameTaken(store, rule) THEN
        [rules |-> store, file |-> f, raised |-> TRUE, ret |-> NoneV]
    ELSE
        LET added == DictPut(store, rule.id, rule)
            saved == save_rules(added, f, wfail)
        IN [rules |-> added, file |-> saved.file, raised |-> saved.raised,
            ret |-> IF saved.raised THEN NoneV ELSE rule]

\* the fields of `updates` assigned whatever their key, id, created_at, last_run and
\* stats included
UpdateFields_every_key(rule, updates) ==
    LET condRaises == /\ "conditions" \in DOMAIN updates
                      /\ ConditionsFromDictRaises(updates.conditions)
        Value(k) ==
            IF k \notin DOMAIN updates THEN rule[k]
            ELSE IF k = "conditions" THEN RuleConditionGroup_from_dict(updates.conditions)
            ELSE IF k = "actions" THEN RuleAction_from_dict(updates.actions)
            ELSE IF k = "schedule" THEN RuleSchedule_from_dict(updates.schedule)
            ELSE updates[k]
    IN IF condRaises THEN [rule |-> rule, raised |-> TRUE]
       ELSE [rule |-> [k \in DOMAIN rule |-> Value(k)], raised |-> FALSE]

\* update_rule, lines 84-98: the fields of `updates` are assigned to the stored rule
\* object one by one; from_dict of the conditions may raise after the first three
UpdateFields(rule, updates) ==
    LET r1 == IF "name" \in DOMAIN updates
              THEN [rule EXCEPT !.name = updates.name] ELSE rule
        r2 == IF "description" \in DOMAIN updates
              THEN [r1 EXCEPT !.description = updates.description] ELSE r1
        r3 == IF "enabled" \in DOMAIN updates
              THEN [r2 EXCEPT !.enabled = updates.enabled] ELSE r2
        condRaises == /\ "conditions" \in DOMAIN updates
                      /\ ConditionsFromDictRaises(updates.conditions)
        r4 == IF "conditions" \in DOMAIN updates /\ ~condRaises
              THEN [r3 EXCEPT !.conditions = RuleConditionGroup_from_dict(updates.conditions)]
              ELSE r3
        r5 == IF "actions" \in DOMAIN updates
              THEN [r4 EXCEPT !.actions = RuleAction_from_dict(updates.actions)] ELSE r4
        r6 == IF "schedule" \in DOMAIN updates
              THEN [r5 EXCEPT !.schedule = RuleSchedule_from_dict(updates.schedule)] ELSE r5
    IN IF condRaises THEN [rule |-> r3, raised |-> TRUE]
       ELSE [rule |-> r6, raised |-> FALSE]

\* RuleStorage.update_rule: the rule object in the dict is mutated in place, so every
\* assignment made before a raise stays in the collection
update_rule(store, f, rule_id, updates, now, wfail) ==
    IF rule_id \notin DOMAIN store THEN
        [rules |-> store, file |-> f, raised |-> FALSE, ret |-> NoneV]
    ELSE
        LET set == UpdateFields(store[rule_id], updates)
            withFields == [store EXCEPT ![rule_id] = set.rule]
            stamped == [withFields EXCEPT ![rule_id].updated_at = now]
            saved == save_rules(stamped, f, wfail)
        IN IF set.raised THEN
               [rules |-> withFields, file |-> f, raised |-> TRUE, ret |-> NoneV]
           ELSE IF "name" \in DOMAIN updates /\ NameTaken(withFields, set.rule) THEN
               [rules |-> withFields, file |-> f, raised |-> TRUE, ret |-> NoneV]
           ELSE IF validate(stamped[rule_id]) # <<>> THEN
               [rules |-> stamped, file |-> f, raised |-> TRUE, ret |-> NoneV]
           ELSE
               [rules |-> stamped, file |-> saved.file, raised |-> saved.raised,
                ret |-> IF saved.raised THEN NoneV ELSE stamped[rule_id]]

\* RuleStorage.delete_rule
delete_rule(store, f, rule_id, wfail) ==
    IF rule_id \in DOMAIN store THEN
        LET removed == DictDel(store, rule_id)
            saved == save_rules(removed, f, wfail)
        IN [rules |-> removed, file |-> saved.file, raised |-> saved.raised,
            ret |-> ~saved.raised]
    ELSE [rules |-> store, file |-> f, raised |-> FALSE, ret |-> FALSE]

\* update_rule_stats setting the counters to those of the result
update_rule_stats_overwriting(store, f, rule_id, result, wfail) ==
    IF rule_id \notin DOMAIN store THEN
        [rules |-> store, file |-> f, raised |-> FALSE]
    ELSE
        LET counted ==
                [store[rule_id] EXCEPT
                    !.last_run = result.timestamp,
                    !.stats = [total_matches |-> Len(result.matched_vms),
                               tags_added |->
                                   SumLens(result.tags_added, DOMAIN result.tags_added),
                               tags_removed |->
                                   SumLens(result.tags_removed, DOMAIN result.tags_removed),
                               last_execution_time |-> result.execution_time]]
            updated == [store EXCEPT ![rule_id] = counted]
            saved == save_rules(updated, f, wfail)
        IN [rules |-> updated, file |-> saved.file, raised |-> saved.raised]

\* RuleStorage.update_rule_stats
update_rule_stats(store, f, rule_id, result, wfail) ==
    IF rule_id \notin DOMAIN store THEN
        [rules |-> store, file |-> f, raised |-> FALSE]
    ELSE
        LET rule == store[rule_id]
            counted ==
                [rule EXCEPT
                    !.last_run = result.timestamp,
                    !.stats = [total_matches |-> @.total_matches + Len(result.matched_vms),
                               tags_added |-> @.tags_added
                                   + SumLens(result.tags_added, DOMAIN result.tags_added),
                               tags_removed |-> @.tags_removed
                                   + SumLens(result.tags_removed, DOMAIN result.tags_removed),
                               last_execution_time |-> result.execution_time]]
            updated == [store EXCEPT ![rule_id] = counted]
            saved == save_rules(updated, f, wfail)
        IN [rules |-> updated, file |-> saved.file, raised |-> saved.raised]

----------------------------------------------------------------------------
(* storage.py: ExecutionHistory.  Every call loads the file and writes it   *)
(* back, so the instances of the routes and of the scheduler share `history`. *)

\* ExecutionHistory.max_history_per_rule
max_history_per_rule == 100

\* the first n elements of a list: s[:n]
Take(s, n) == SubSeq(s, 1, IF Len(s) < n THEN Len(s) ELSE n)

\* add_execution keeping every entry
add_execution_untrimmed(h, result) ==
    LET rule_history == IF result.rule_id \in DOMAIN h THEN h[result.rule_id] ELSE <<>>
    IN DictPut(h, result.rule_id, <<result>> \o rule_history)

\* ExecutionHistory.add_execution: newest first, trimmed to the cap
add_execution(h, result) ==
    LET rule_history == IF result.rule_id \in DOMAIN h THEN h[result.rule_id] ELSE <<>>
    IN DictPut(h, result.rule_id, Take(<<result>> \o rule_history, max_history_per_rule))

\* ExecutionHistory.get_rule_history
get_rule_history(h, rule_id, limit) ==
    Take(IF rule_id \in DOMAIN h THEN h[rule_id] ELSE <<>>, limit)

\* the clock readings of one second: a reading t is microsecond t % TicksPerSecond of
\* second t \div TicksPerSecond
TicksPerSecond == 2

\* datetime.isoformat() of a UTC time, as the fields of the string: the zero-padded date
\* and time to the second, then "." (code 46) and the six-digit microsecond unless it is
\* zero, then the "+" (code 43) of the offset "+00:00"
isoformat(t) ==
    IF t % TicksPerSecond = 0 THEN <<t \div TicksPerSecond, 43>>
    ELSE <<t \div TicksPerSecond, 46, t % TicksPerSecond, 43>>

\* a < b for two strings: at the first place where they differ a has the smaller
\* character, or a ends there
StrLess(a, b) ==
    \E k \in 1..(Len(b)) :
        /\ \A i \in 1..(k - 1) : i <= Len(a) /\ a[i] = b[i]
        /\ k > Len(a) \/ a[k] < b[k]

\* the sort key of get_recent_executions: x.get('timestamp', '')
SortKey(execution) ==
    IF "timestamp" \in DOMAIN execution THEN isoformat(execution.timestamp) ELSE <<>>

RECURSIVE Collect(_, _)
\* the loops of get_recent_executions over history.items(), the keys in the order `order`
Collect(h, order) ==
    IF order = <<>> THEN <<>> ELSE h[Head(order)] \o Collect(h, Tail(order))

RECURSIVE SortReversed(_)
\* list.sort(key = SortKey, reverse = True): descending keys, the elements of equal key
\* in their original order
SortReversed(s) ==
    IF s = <<>> THEN <<>>
    ELSE LET front == SortReversed(SubSeq(s, 1, Len(s) - 1))
             x == s[Len(s)]
             before == SelectSeq(front, LAMBDA e : ~StrLess(SortKey(e), SortKey(x)))
             after == SelectSeq(front, LAMBDA e : StrLess(SortKey(e), SortKey(x)))
         IN before \o <<x>> \o after

\* get_recent_executions without the sort
get_recent_executions_unsorted(h, order, limit) == Take(Collect(h, order), limit)

\* ExecutionHistory.get_recent_executions, `order` being the order of the keys of the
\* loaded history
get_recent_executions(h, order, limit) == Take(SortReversed(Collect(h, order)), limit)

----------------------------------------------------------------------------
(* engine.py.  A resource record (vm) is a dict; the records of the          *)
(* inventory carry vmid, node, type, status and tags.                        *)

\* the keys of a resource record whose values are numbers, and those whose values are dicts
NumKeys == {"vmid", "cores"}
DictKeys == {"config"}

\* a value read out of a resource record, tagged with its Python type
Wrap(key, value) ==
    IF key \in NumKeys THEN PyNum(value)
    ELSE IF key = "tags" THEN [t |-> "segs", v |-> value]
    ELSE PyStr(value)

RECURSIVE Walk(_, _)
\* the loop of _get_field_value over the parts of the path, from the dict `value`
Walk(value, parts) ==
    IF Head(parts) \notin DOMAIN value THEN NoneV
    ELSE IF Len(parts) = 1 THEN
        IF Head(parts) \in DictKeys THEN [t |-> "dict", v |-> value[Head(parts)]]
        ELSE Wrap(Head(parts), value[Head(parts)])
    ELSE IF Head(parts) \in DictKeys THEN Walk(value[Head(parts)], Tail(parts))
    ELSE NoneV

\* RuleEngine._get_field_value
get_field_value(vm, field_path) == Walk(vm, field_path)

\* str(value) of a scalar
StrOf(value) ==
    CASE value.t = "str" -> value.v
      [] value.t = "num" -> ToString(value.v)
      [] value.t = "none" -> "None"

\* RuleEngine._op_equals
op_equals(field_value, compare_value) ==
    Lower(StrOf(field_value)) = Lower(StrOf(compare_value))

\* RuleEngine._op_not_equals
op_not_equals(field_value, compare_value) ==
    Lower(StrOf(field_value)) # Lower(StrOf(compare_value))

\* RuleEngine._op_contains
op_contains(field_value, compare_value) ==
    Contains(Lower(StrOf(field_value)), Lower(StrOf(compare_value)))

\* RuleEngine._op_not_contains
op_not_contains(field_value, compare_value) ==
    ~Contains(Lower(StrOf(field_value)), Lower(StrOf(compare_value)))

\* a Python list of scalars
PyList(values) == [t |-> "list", v |-> values]

\* compare_list of _op_in and _op_not_in: a value that is not a list is wrapped in one
AsList(compare_list) ==
    IF compare_list.t = "list" THEN compare_list.v ELSE <<compare_list>>

\* RuleEngine._op_in
op_in(field_value, compare_list) ==
    Lower(StrOf(field_value)) \in {Lower(StrOf(v)) : v \in Range(AsList(compare_list))}

\* RuleEngine._op_not_in
op_not_in(field_value, compare_list) ==
    Lower(StrOf(field_value)) \notin {Lower(StrOf(v)) : v \in Range(AsList(compare_list))}

\* self.operators: the string operators by name
StringOperators == {"equals", "not_equals", "contains", "not_contains", "in", "not_in"}

\* op_func(field_value, condition.value) for a string operator
StringOp(operator, field_value, compare_value) ==
    CASE operator = "equals" -> op_equals(field_value, compare_value)
      [] operator = "not_equals" -> op_not_equals(field_value, compare_value)
      [] operator = "contains" -> op_contains(field_value, compare_value)
      [] operator = "not_contains" -> op_not_contains(field_value, compare_value)
      [] operator = "in" -> op_in(field_value, compare_value)
      [] operator = "not_in" -> op_not_in(field_value, compare_value)

\* a Python int beyond the range of a float, such as 10 ** 400
PyBig == [t |-> "big", v |-> "10**400"]

\* the strings of the model's alphabet that float() parses, with their values; float()
\* strips the whitespace around the numeral
Numerals == ("0" :> 0) @@ ("2" :> 2) @@ (" 3 " :> 3)

\* float(value): the number, or the exception raised (exc = "" for none): ValueError for
\* a string that is no numeral, OverflowError for an int too large, TypeError for None,
\* a dict or a list
float(value) ==
    CASE value.t = "num" -> [exc |-> "", v |-> value.v]
      [] value.t = "str" ->
            IF value.v \in DOMAIN Numerals THEN [exc |-> "", v |-> Numerals[value.v]]
            ELSE [exc |-> "ValueError", v |-> 0]
      [] value.t = "segs" -> [exc |-> "ValueError", v |-> 0]
      [] value.t = "big" -> [exc |-> "OverflowError", v |-> 0]
      [] OTHER -> [exc |-> "TypeError", v |-> 0]

\* the exception that ends the try block of a numeric operator, "" for none:
\* float(field_value) is evaluated first, float(compare_value) second
CoercionError(field_value, compare_value) ==
    IF float(field_value).exc # "" THEN float(field_value).exc
    ELSE float(compare_value).exc

\* the outcome of a numeric operator: the comparison when the try block completes, False
\* under `except (ValueError, TypeError)`, and any other exception raised to the caller
Guarded(exc, comparison) ==
    IF exc = "" THEN [exc |-> "", value |-> comparison]
    ELSE IF exc \in {"ValueError", "TypeError"} THEN [exc |-> "", value |-> FALSE]
    ELSE [exc |-> exc, value |-> FALSE]

\* RuleEngine._op_greater_than
op_greater_than(field_value, compare_value) ==
    Guarded(CoercionError(field_value, compare_value),
            float(field_value).v > float(compare_value).v)

\* RuleEngine._op_less_than
op_less_than(field_value, compare_value) ==
    Guarded(CoercionError(field_value, compare_value),
            float(field_value).v < float(compare_value).v)

\* RuleEngine._op_greater_equals
op_greater_equals(field_value, compare_value) ==
    Guarded(CoercionError(field_value, compare_value),
            float(field_value).v >= float(compare_value).v)

\* RuleEngine._op_less_equals
op_less_equals(field_value, compare_value) ==
    Guarded(CoercionError(field_value, compare_value),
            float(field_value).v <= float(compare_value).v)

\* self.operators: the numeric operators by name
NumericOperators == {"greater_than", "less_than", "greater_equals", "less_equals"}

\* op_func(field_value, condition.value) for a numeric operator
NumericOp(operator, field_value, compare_value) ==
    CASE operator = "greater_than" -> op_greater_than(field_value, compare_value)
      [] operator = "less_than" -> op_less_than(field_value, compare_value)
      [] operator = "greater_equals" -> op_greater_equals(field_value, compare_value)
      [] operator = "less_equals" -> op_less_equals(field_value, compare_value)

\* RuleEngine._evaluate_condition on the outcome of a numeric operator: an exception the
\* function raises is logged and the condition is false
Caught(outcome) == outcome.exc = "" /\ outcome.value

\* RuleEngine._evaluate_condition for the operators of the rules evaluated: the
\* operator's function applied to the field's value
evaluate_condition(condition, vm) ==
    LET field_value == get_field_value(vm, condition.field)
    IN CASE condition.operator = "equals" -> op_equals(field_value, condition.value)
         [] condition.operator = "not_equals" -> op_not_equals(field_value, condition.value)

\* _evaluate_conditions without its guard on the empty list: all([]) is True
evaluate_conditions_unguarded(condition_group, vm) ==
    LET conds == condition_group.conditions
    IN IF condition_group.operator = "AND"
       THEN \A i \in 1..Len(conds) : evaluate_condition(conds[i], vm)
       ELSE \E i \in 1..Len(conds) : evaluate_condition(conds[i], vm)

\* RuleEngine._evaluate_conditions
evaluate_conditions(condition_group, vm) ==
    LET conds == condition_group.conditions
    IN IF conds = <<>> THEN FALSE
       ELSE IF condition_group.operator = "AND"
            THEN \A i \in 1..Len(conds) : evaluate_condition(conds[i], vm)
            ELSE \E i \in 1..Len(conds) : evaluate_condition(conds[i], vm)

\* an entry of result.errors: the failed update of one resource, or the exception that
\* aborted the evaluation (vmid 0)
UpdateError(vmid) == [kind |-> "Failed to update VM", vmid |-> vmid]
ExceptionError == [kind |-> "exception", vmid |-> 0]

RECURSIVE AddLoop(_, _, _)
\* the loop over the tags to add: st is [new_tags, result]
AddLoop(tags, vmid, st) ==
    IF tags = <<>> THEN st
    ELSE LET tag_lower == Lower(Head(tags))
             next ==
                IF tag_lower \notin st.new_tags
                THEN [new_tags |-> st.new_tags \cup {tag_lower},
                      result |-> [st.result EXCEPT
                          !.tags_added = DictAppend(@, vmid, tag_lower)]]
                ELSE [new_tags |-> st.new_tags,
                      result |-> [st.result EXCEPT
                          !.tags_already_present = DictAppend(@, vmid, tag_lower)]]
         IN AddLoop(Tail(tags), vmid, next)

RECURSIVE RemoveLoop(_, _, _)
\* the loop over the tags to remove
RemoveLoop(tags, vmid, st) ==
    IF tags = <<>> THEN st
    ELSE LET tag_lower == Lower(Head(tags))
             next ==
                IF tag_lower \in st.new_tags
                THEN [new_tags |-> st.new_tags \ {tag_lower},
                      result |-> [st.result EXCEPT
                          !.tags_removed = DictAppend(@, vmid, tag_lower)]]
                ELSE st
         IN RemoveLoop(Tail(tags), vmid, next)

\* the except clause failing the whole result
on_update_failure_fatal(result, vmid) ==
    [result EXCEPT !.success = FALSE, !.errors = Append(@, UpdateError(vmid))]

\* the except clause around format_tags and update_vm_tags: the failure of one
\* resource is appended to the errors, and the loop goes on
on_update_failure(result, vmid) == [result EXCEPT !.errors = Append(@, UpdateError(vmid))]

\* the tags format_tags(list(new_tags)) carries: the order of a set's list is not
\* fixed, so the string sent is kept as the set of its segments; a tag holding the
\* separator makes several segments of the joined string
SentTags(new_tags) == UNION {Segments(Strip(t)) : t \in new_tags} \ {""}

\* the body of the for loop removing before it adds
ApplyOne_removing_first(add, rem, vm, acc, live, failing) ==
    IF acc.raised THEN acc
    ELSE IF "vmid" \notin DOMAIN vm \/ (live /\ ~({"node", "type"} \subseteq DOMAIN vm))
    THEN [acc EXCEPT !.raised = TRUE]
    ELSE
        LET vmid == vm.vmid
            current_tags == parse_tags(IF "tags" \in DOMAIN vm THEN vm.tags ELSE <<"">>)
            start == IF live THEN {Lower(t) : t \in Range(current_tags)}
                     ELSE Range(current_tags)
            st1 == RemoveLoop(rem, vmid, [new_tags |-> start, result |-> acc.result])
            st2 == AddLoop(add, vmid, st1)
            call == [vmid |-> vmid, node |-> vm.node, type |-> vm.type,
                     tags |-> SentTags(st2.new_tags)]
        IN IF live /\ st2.new_tags # Range(current_tags) THEN
               [result |-> IF vmid \in failing THEN on_update_failure(st2.result, vmid)
                           ELSE st2.result,
                calls |-> Append(acc.calls, call),
                raised |-> FALSE]
           ELSE [result |-> st2.result, calls |-> acc.calls, raised |-> FALSE]

\* the body of the for loop of _apply_then_actions / _apply_else_actions (live) and of
\* _simulate_then_actions / _simulate_else_actions (not live) for one resource.
\* acc is [result, calls, raised]; failing is the set of vmids whose update_vm_tags raises
ApplyOne(add, rem, vm, acc, live, failing) ==
    IF acc.raised THEN acc
    ELSE IF "vmid" \notin DOMAIN vm \/ (live /\ ~({"node", "type"} \subseteq DOMAIN vm))
    THEN [acc EXCEPT !.raised = TRUE]
    ELSE
        LET vmid == vm.vmid
            current_tags == parse_tags(IF "tags" \in DOMAIN vm THEN vm.tags ELSE <<"">>)
            start == IF live THEN {Lower(t) : t \in Range(current_tags)}
                     ELSE Range(current_tags)
            st1 == AddLoop(add, vmid, [new_tags |-> start, result |-> acc.result])
            st2 == RemoveLoop(rem, vmid, st1)
            call == [vmid |-> vmid, node |-> vm.node, type |-> vm.type,
                     tags |-> SentTags(st2.new_tags)]
        IN IF live /\ st2.new_tags # Range(current_tags) THEN
               [result |-> IF vmid \in failing THEN on_update_failure(st2.result, vmid)
                           ELSE st2.result,
                calls |-> Append(acc.calls, call),
                raised |-> FALSE]
           ELSE [result |-> st2.result, calls |-> acc.calls, raised |-> FALSE]

RECURSIVE ApplyAllBackwards(_, _, _, _, _, _)
\* the for loop taking the resources from the last to the first
ApplyAllBackwards(add, rem, vms, acc, live, failing) ==
    IF vms = <<>> THEN acc
    ELSE ApplyOne(add, rem, Head(vms),
                  ApplyAllBackwards(add, rem, Tail(vms), acc, live, failing),
                  live, failing)

RECURSIVE ApplyAll(_, _, _, _, _, _)
\* the for loop over the resources, in the order of the batch
ApplyAll(add, rem, vms, acc, live, failing) ==
    IF vms = <<>> THEN acc
    ELSE ApplyAll(add, rem, Tail(vms), ApplyOne(add, rem, Head(vms), acc, live, failing),
                  live, failing)

\* RuleEngine._apply_then_actions
apply_then_actions(rule, vms, acc, failing) ==
    ApplyAll(rule.actions.add_tags, rule.actions.remove_tags, vms, acc, TRUE, failing)

\* the ELSE stage applying the THEN lists
apply_else_as_then(rule, vms, acc, failing) ==
    ApplyAll(rule.actions.add_tags, rule.actions.remove_tags, vms, acc, TRUE, failing)

\* RuleEngine._apply_else_actions
apply_else_actions(rule, vms, acc, failing) ==
    ApplyAll(rule.actions.else_add_tags, rule.actions.else_remove_tags, vms, acc, TRUE,
             failing)

\* the THEN stage of a dry run making the calls of a live one
simulate_then_live(rule, vms, acc) ==
    ApplyAll(rule.actions.add_tags, rule.actions.remove_tags, vms, acc, TRUE, {})

\* RuleEngine._simulate_then_actions
simulate_then_actions(rule, vms, acc) ==
    ApplyAll(rule.actions.add_tags, rule.actions.remove_tags, vms, acc, FALSE, {})

\* RuleEngine._simulate_else_actions
simulate_else_actions(rule, vms, acc) ==
    ApplyAll(rule.actions.else_add_tags, rule.actions.else_remove_tags, vms, acc, FALSE, {})

\* evaluate_rule running the ELSE pass whether or not the rule defines ELSE actions
evaluate_rule_else_always(rule, vms, dry_run, failing, fault, now, dur) ==
    LET result0 == [ExecutionResult(rule.id, rule.name, now) EXCEPT !.dry_run = dry_run]
        matched_vms == SelectSeq(vms, LAMBDA vm : evaluate_conditions(rule.conditions, vm))
        non_matched_vms ==
            SelectSeq(vms, LAMBDA vm : ~evaluate_conditions(rule.conditions, vm))
        idRaises == \E i \in 1..Len(matched_vms) : "vmid" \notin DOMAIN matched_vms[i]
        acc0 == IF fault \/ idRaises
                THEN [result |-> result0, calls |-> <<>>, raised |-> TRUE]
                ELSE [result |-> [result0 EXCEPT !.matched_vms =
                                    [i \in 1..Len(matched_vms) |-> matched_vms[i].vmid]],
                      calls |-> <<>>, raised |-> FALSE]
        acc1 == IF matched_vms # <<>>
                THEN IF dry_run THEN simulate_then_actions(rule, matched_vms, acc0)
                     ELSE apply_then_actions(rule, matched_vms, acc0, failing)
                ELSE acc0
        acc2 == IF non_matched_vms # <<>>
                THEN IF dry_run THEN simulate_else_actions(rule, non_matched_vms, acc1)
                     ELSE apply_else_actions(rule, non_matched_vms, acc1, failing)
                ELSE acc1
    IN IF acc2.raised
       THEN [result |-> [acc2.result EXCEPT !.success = FALSE,
                                            !.errors = Append(@, ExceptionError)],
             calls |-> acc2.calls]
       ELSE [result |-> [acc2.result EXCEPT !.execution_time = dur],
             calls |-> acc2.calls]

\* evaluate_rule collecting the matched resources last to first
evaluate_rule_newest_first(rule, vms, dry_run, failing, fault, now, dur) ==
    LET result0 == [ExecutionResult(rule.id, rule.name, now) EXCEPT !.dry_run = dry_run]
        kept == SelectSeq(vms, LAMBDA vm : evaluate_conditions(rule.conditions, vm))
        matched_vms == [i \in 1..Len(kept) |-> kept[Len(kept) + 1 - i]]
        non_matched_vms ==
            SelectSeq(vms, LAMBDA vm : ~evaluate_conditions(rule.conditions, vm))
        idRaises == \E i \in 1..Len(matched_vms) : "vmid" \notin DOMAIN matched_vms[i]
        acc0 == IF fault \/ idRaises
                THEN [result |-> result0, calls |-> <<>>, raised |-> TRUE]
                ELSE [result |-> [result0 EXCEPT !.matched_vms =
                                    [i \in 1..Len(matched_vms) |-> matched_vms[i].vmid]],
                      calls |-> <<>>, raised |-> FALSE]
        acc1 == IF matched_vms # <<>>
                THEN IF dry_run THEN simulate_then_actions(rule, matched_vms, acc0)
                     ELSE apply_then_actions(rule, matched_vms, acc0, failing)
                ELSE acc0
        acc2 == IF /\ non_matched_vms # <<>>
                   /\ (rule.actions.else_add_tags # <<>> \/ rule.actions.else_remove_tags # <<>>)
                THEN IF dry_run THEN simulate_else_actions(rule, non_matched_vms, acc1)
                     ELSE apply_else_actions(rule, non_matched_vms, acc1, failing)
                ELSE acc1
    IN IF acc2.raised
       THEN [result |-> [acc2.result EXCEPT !.success = FALSE,
                                            !.errors = Append(@, ExceptionError)],
             calls |-> acc2.calls]
       ELSE [result |-> [acc2.result EXCEPT !.execution_time = dur],
             calls |-> acc2.calls]

\* RuleEngine.evaluate_rule: [result, calls], calls being the update_vm_tags calls made,
\* in order.  `fault` is an exception raised while the resources are partitioned;
\* dur is the time measured
evaluate_rule(rule, vms, dry_run, failing, fault, now, dur) ==
    LET result0 == [ExecutionResult(rule.id, rule.name, now) EXCEPT !.dry_run = dry_run]
        matched_vms == SelectSeq(vms, LAMBDA vm : evaluate_conditions(rule.conditions, vm))
        non_matched_vms ==
            SelectSeq(vms, LAMBDA vm : ~evaluate_conditions(rule.conditions, vm))
        idRaises == \E i \in 1..Len(matched_vms) : "vmid" \notin DOMAIN matched_vms[i]
        acc0 == IF fault \/ idRaises
                THEN [result |-> result0, calls |-> <<>>, raised |-> TRUE]
                ELSE [result |-> [result0 EXCEPT !.matched_vms =
                                    [i \in 1..Len(matched_vms) |-> matched_vms[i].vmid]],
                      calls |-> <<>>, raised |-> FALSE]
        acc1 == IF matched_vms # <<>>
                THEN IF dry_run THEN simulate_then_actions(rule, matched_vms, acc0)
                     ELSE apply_then_actions(rule, matched_vms, acc0, failing)
                ELSE acc0
        acc2 == IF /\ non_matched_vms # <<>>
                   /\ (rule.actions.else_add_tags # <<>> \/ rule.actions.else_remove_tags # <<>>)
                THEN IF dry_run THEN simulate_else_actions(rule, non_matched_vms, acc1)
                     ELSE apply_else_actions(rule, non_matched_vms, acc1, failing)
                ELSE acc1
    IN IF acc2.raised
       THEN [result |-> [acc2.result EXCEPT !.success = FALSE,
                                            !.errors = Append(@, ExceptionError)],
             calls |-> acc2.calls]
       ELSE [result |-> [acc2.result EXCEPT !.execution_time = dur],
             calls |-> acc2.calls]

----------------------------------------------------------------------------
(* scheduler.py: RuleScheduler.  self.jobs and the BackgroundScheduler's job  *)
(* store hold the same rule ids (add_job and remove_job are called together   *)
(* with the index update), so both are the set `jobs`.                        *)

\* remove_schedule leaving the job registered
remove_schedule_keeping(jobSet, rule_id) == jobSet

\* RuleScheduler.remove_schedule
remove_schedule(jobSet, rule_id) == jobSet \ {rule_id}

\* RuleScheduler.add_schedule: nothing for a disabled schedule or an empty cron; else
\* the rule's job is replaced, or only removed when the cron does not parse
add_schedule(jobSet, rule) ==
    IF ~rule.schedule.enabled THEN jobSet
    ELSE IF rule.schedule.cron = <<>> THEN jobSet
    ELSE LET cleared == IF rule.id \in jobSet THEN remove_schedule(jobSet, rule.id)
                        ELSE jobSet
         IN IF ~CronParses(rule.schedule.cron) THEN cleared
            ELSE cleared \cup {rule.id}

\* RuleScheduler.update_schedule
update_schedule(jobSet, rule) ==
    LET removed == remove_schedule(jobSet, rule.id)
    IN IF rule.enabled /\ rule.schedule.enabled THEN add_schedule(removed, rule)
       ELSE removed

RECURSIVE ScheduleAll(_, _, _)
\* the second loop of reload_schedules, over the rules with the ids in ks
ScheduleAll(jobSet, store, ks) ==
    IF ks = {} THEN jobSet
    ELSE LET k == CHOOSE x \in ks : TRUE
             rule == store[k]
             next == IF rule.enabled /\ rule.schedule.enabled /\ rule.schedule.cron # <<>>
                     THEN add_schedule(jobSet, rule)
                     ELSE jobSet
         IN ScheduleAll(next, store, ks \ {k})

RECURSIVE RemoveAll(_, _)
\* the first loop of reload_schedules
RemoveAll(jobSet, ks) ==
    IF ks = {} THEN jobSet
    ELSE LET k == CHOOSE x \in ks : TRUE
         IN RemoveAll(remove_schedule(jobSet, k), ks \ {k})

\* reload_schedules without the first loop: the jobs registered before stay
reload_schedules_keeping(jobSet, store) == ScheduleAll(jobSet, store, DOMAIN store)

\* RuleScheduler.reload_schedules
reload_schedules(jobSet, store) ==
    ScheduleAll(RemoveAll(jobSet, jobSet), store, DOMAIN store)

\* storage.get_rule_storage, which scheduler.py imports: a RuleStorage of its own over
\* the default file, loaded when it is built (routes.py builds its own at import)
get_rule_storage(f) == load_rules(f)

\* RuleScheduler.__init__: its own storage, then reload_schedules
RuleScheduler(f) ==
    LET store == get_rule_storage(f)
    IN [srules |-> store, jobs |-> reload_schedules({}, store)]

\* get_scheduler() as one step: the instance, built on first use.
\* sch is [inst, srules, jobs, nReloads]
get_scheduler(sch, f) ==
    IF sch.inst # 0 THEN sch
    ELSE LET built == RuleScheduler(f)
         IN [inst |-> 1, srules |-> built.srules, jobs |-> built.jobs,
             nReloads |-> sch.nReloads + 1]

\* the scheduler's state as get_scheduler reads it
Sch == [inst |-> scheduler_instance, srules |-> srules, jobs |-> jobs,
        nReloads |-> nReloads]

\* the guard without the check of rule.enabled
rule_found(store, rule_id) == rule_id \in DOMAIN store

\* the guard of _execute_rule: the rule is read from the scheduler's store, and the
\* firing goes on only when it is there and enabled
rule_found_and_enabled(store, rule_id) ==
    rule_id \in DOMAIN store /\ store[rule_id].enabled

\* RuleScheduler._rule_needs_enrichment
rule_needs_enrichment(rule) ==
    \E i \in 1..Len(rule.conditions.conditions) :
        Head(rule.conditions.conditions[i].field)
            \in {"config", "ha", "replication", "snapshots", "backup"}
        /\ Len(rule.conditions.conditions[i].field) > 1

----------------------------------------------------------------------------
(* Inputs of the model *)

CronHourly == <<"0", "*", "*", "*", "*">>
CronBad == <<"bad">>

ScheduleOff == [enabled |-> FALSE, cron |-> <<>>]
ScheduleHourly == [enabled |-> TRUE, cron |-> CronHourly]
ScheduleBad == [enabled |-> TRUE, cron |-> CronBad]

CondRunning ==
    [operator |-> "AND",
     rules |-> <<[field |-> <<"status">>, operator |-> "equals",
                  value |-> PyStr("running")]>>]
CondUnknownOperator ==
    [operator |-> "AND",
     rules |-> <<[field |-> <<"status">>, operator |-> "matches",
                  value |-> PyStr("running")]>>]

ActWeb == [add_tags |-> <<"web">>]
ActDb == [add_tags |-> <<"db">>, else_remove_tags |-> <<"db">>]
ActNone == [add_tags |-> <<>>, remove_tags |-> <<>>,
            else_add_tags |-> <<>>, else_remove_tags |-> <<>>]

\* the request bodies of POST /api/rules
CreateInputs ==
    {[name |-> "A", enabled |-> TRUE, conditions |-> CondRunning, actions |-> ActWeb,
      schedule |-> ScheduleHourly],
     [name |-> "B", enabled |-> FALSE, conditions |-> CondRunning, actions |-> ActWeb,
      schedule |-> ScheduleHourly],
     [name |-> "B", enabled |-> TRUE, conditions |-> CondRunning, actions |-> ActWeb,
      schedule |-> ScheduleHourly]}

\* the request bodies of PUT /api/rules/<rule_id>
UpdateInputs ==
    {[enabled |-> FALSE],
     [enabled |-> TRUE],
     [actions |-> ActDb],
     [schedule |-> ScheduleOff],
     [schedule |-> ScheduleBad]}

\* the inventory get_all_vms() returns
Vm(vmid, status, tags) ==
    [vmid |-> vmid, node |-> "pve", type |-> "qemu", status |-> status, tags |-> tags]

Batches ==
    {<<Vm(100, "Running", <<"">>), Vm(101, "stopped", <<"db">>)>>}

\* the sets of vmids whose update_vm_tags call fails: none in the requests and firings
\* of Spec, any in the evaluations of SpecEngine
NoFailures == {{}}

\* the documents the rule file can hold when the process starts
StoredRule ==
    [ConditionalRule(1, "A", "", TRUE, 1) EXCEPT
        !.conditions = RuleConditionGroup_from_dict(CondRunning),
        !.actions = RuleAction_from_dict(ActWeb),
        !.schedule = ScheduleHourly]

InitialFiles == {EmptyDict, [k \in {1} |-> StoredRule]}

\* the time evaluate_rule measures
Durations == {1}

----------------------------------------------------------------------------
(* State *)

NoCall == [op |-> "none", raised |-> FALSE, flip |-> FALSE]

NoExec ==
    [kind |-> "none", rule_id |-> 0, outcome |-> "none", fetched |-> FALSE,
     rule |-> NoneV, calls |-> <<>>, failed |-> FALSE, deleted |-> {}, flip |-> FALSE]

Threads == 1..NThreads

NoEval == [phase |-> "off"]

\* no thread is executing a rule
NoFrames == [t \in Threads |-> NoneV]

\* routes.py is imported: its RuleStorage loads the file; no scheduler yet
Init ==
    /\ file \in InitialFiles
    /\ rules = load_rules(file)
    /\ history = EmptyDict
    /\ appended = EmptyDict
    /\ frame = NoFrames
    /\ stopped = FALSE
    /\ scheduler_instance = 0
    /\ srules = EmptyDict
    /\ jobs = {}
    /\ nextId = Cardinality(DOMAIN file) + 1
    /\ clock = 1
    /\ lastCall = NoCall
    /\ lastExec = NoExec
    /\ deleted = {}
    /\ pc = [t \in Threads |-> "idle"]
    /\ ret = [t \in Threads |-> 0]
    /\ lockHolder = 0
    /\ nReloads = 0
    /\ eng = NoEval

singletonVars == <<pc, ret, lockHolder>>

\* the ids a request can name: those issued so far, and 0, which is never issued
KnownIds == 0..(nextId - 1)

----------------------------------------------------------------------------
(* routes.py: the handlers, each with the scheduler call it makes *)

\* the rule api_create_rule builds from the request body
RuleOfData(data, rule_id, now) ==
    LET base == ConditionalRule(rule_id, data.name,
                    IF "description" \in DOMAIN data THEN data.description ELSE "",
                    IF "enabled" \in DOMAIN data THEN data.enabled ELSE TRUE, now)
        r1 == IF "conditions" \in DOMAIN data
              THEN [base EXCEPT !.conditions = RuleConditionGroup_from_dict(data.conditions)]
              ELSE base
        r2 == IF "actions" \in DOMAIN data
              THEN [r1 EXCEPT !.actions = RuleAction_from_dict(data.actions)] ELSE r1
    IN IF "schedule" \in DOMAIN data
       THEN [r2 EXCEPT !.schedule = RuleSchedule_from_dict(data.schedule)] ELSE r2

\* api_create_rule: build the rule, storage.create_rule, then scheduler.add_schedule
ApiCreateRule(data, wfail) ==
    /\ clock < MaxClock
    /\ clock' = clock + 1
    /\ LET bodyRaises == \/ "name" \notin DOMAIN data
                         \/ /\ "conditions" \in DOMAIN data
                            /\ ConditionsFromDictRaises(data.conditions)
           rule == RuleOfData(data, nextId, clock)
           out == create_rule(rules, file, rule, wfail)
           sch == get_scheduler(Sch, out.file)
       IN IF bodyRaises THEN
              /\ UNCHANGED <<rules, file, scheduler_instance, srules, jobs, nReloads,
                             nextId>>
          ELSE
              /\ rules' = out.rules
              /\ file' = out.file
              /\ nextId' = IF nextId \in DOMAIN out.rules THEN nextId + 1 ELSE nextId
              /\ IF out.raised
                 THEN UNCHANGED <<scheduler_instance, srules, jobs, nReloads>>
                 ELSE /\ scheduler_instance' = sch.inst
                      /\ srules' = sch.srules
                      /\ nReloads' = sch.nReloads
                      /\ jobs' = add_schedule(sch.jobs, out.ret)
    /\ UNCHANGED <<history, lastCall, lastExec, deleted, eng, stopped, appended, frame, singletonVars>>

\* api_update_rule: storage.update_rule, then scheduler.update_schedule
ApiUpdateRule(rule_id, data, wfail) ==
    /\ clock < MaxClock
    /\ clock' = clock + 1
    /\ LET out == update_rule(rules, file, rule_id, data, clock, wfail)
           sch == get_scheduler(Sch, out.file)
       IN /\ rules' = out.rules
          /\ file' = out.file
          /\ IF out.raised \/ out.ret = NoneV
             THEN UNCHANGED <<scheduler_instance, srules, jobs, nReloads>>
             ELSE /\ scheduler_instance' = sch.inst
                  /\ srules' = sch.srules
                  /\ nReloads' = sch.nReloads
                  /\ jobs' = update_schedule(sch.jobs, out.ret)
    /\ UNCHANGED <<history, nextId, lastCall, lastExec, deleted, eng, stopped, appended, frame, singletonVars>>

\* api_delete_rule: scheduler.remove_schedule first, then storage.delete_rule
ApiDeleteRule(rule_id, wfail) ==
    /\ clock < MaxClock
    /\ clock' = clock + 1
    /\ LET sch == get_scheduler(Sch, file)
           out == delete_rule(rules, file, rule_id, wfail)
       IN /\ scheduler_instance' = sch.inst
          /\ srules' = sch.srules
          /\ nReloads' = sch.nReloads
          /\ jobs' = remove_schedule(sch.jobs, rule_id)
          /\ rules' = out.rules
          /\ file' = out.file
    /\ deleted' = IF rule_id \in DOMAIN rules THEN deleted \cup {rule_id} ELSE deleted
    /\ UNCHANGED <<history, nextId, lastCall, lastExec, eng, stopped, appended, frame, singletonVars>>

\* the record of an execution: what was asked, how far it got (outcome), whether the
\* inventory was requested, the rule definition evaluated, the update_vm_tags calls
\* made, whether the execution failed, and the rules deleted before it started
Exec(kind, rule_id, outcome, fetched, rule, ev) ==
    [kind |-> kind, rule_id |-> rule_id, outcome |-> outcome, fetched |-> fetched,
     rule |-> rule, calls |-> ev.calls,
     failed |-> outcome \in {"fetch_failed", "stats_failed"} \/ ~ev.result.success,
     deleted |-> deleted, flip |-> ~lastExec.flip]

NoEv == [calls |-> <<>>, result |-> [success |-> TRUE]]

\* api_execute_rule: the rule of the route layer's store, evaluated live on the
\* inventory, then update_rule_stats and add_execution.  fetchOk: get_all_vms returns
ApiExecuteRule(rule_id, fetchOk, vms, failing, fault, dur, wfail) ==
    /\ clock < MaxClock
    /\ clock' = clock + 1
    /\ IF rule_id \notin DOMAIN rules THEN
           /\ lastExec' = Exec("manual", rule_id, "not_found", FALSE, NoneV, NoEv)
           /\ UNCHANGED <<rules, file, history>>
       ELSE IF ~fetchOk THEN
           /\ lastExec' = Exec("manual", rule_id, "fetch_failed", TRUE, NoneV, NoEv)
           /\ UNCHANGED <<rules, file, history>>
       ELSE
           \E ev \in {evaluate_rule(rules[rule_id], vms, FALSE, failing, fault, clock, dur)} :
           \E st \in {update_rule_stats(rules, file, rule_id, ev.result, wfail)} :
              /\ rules' = st.rules
              /\ file' = st.file
              /\ history' = IF st.raised THEN history
                            ELSE add_execution(history, ev.result)
              /\ lastExec' = Exec("manual", rule_id,
                                  IF st.raised THEN "stats_failed" ELSE "recorded",
                                  TRUE, rules[rule_id], ev)
    /\ UNCHANGED <<scheduler_instance, srules, jobs, nextId, lastCall, deleted,
                   nReloads, eng, stopped, appended, frame, singletonVars>>

----------------------------------------------------------------------------
(* scheduler.py: a job firing *)

\* RuleScheduler._execute_rule, run by the BackgroundScheduler for a registered job
ExecuteRule(rule_id, fetchOk, vms, failing, fault, dur, wfail) ==
    /\ scheduler_instance # 0
    /\ ~stopped
    /\ rule_id \in jobs
    /\ clock < MaxClock
    /\ clock' = clock + 1
    /\ IF ~rule_found_and_enabled(srules, rule_id) THEN
           /\ lastExec' = Exec("fire", rule_id, "noop", FALSE, NoneV, NoEv)
           /\ UNCHANGED <<srules, file, history>>
       ELSE IF ~fetchOk THEN
           /\ lastExec' = Exec("fire", rule_id, "fetch_failed", TRUE, NoneV, NoEv)
           /\ UNCHANGED <<srules, file, history>>
       ELSE
           \E ev \in {evaluate_rule(srules[rule_id], vms, FALSE, failing, fault, clock, dur)} :
           \E st \in {update_rule_stats(srules, file, rule_id, ev.result, wfail)} :
              /\ srules' = st.rules
              /\ file' = st.file
              /\ history' = IF st.raised THEN history
                            ELSE add_execution(history, ev.result)
              /\ lastExec' = Exec("fire", rule_id,
                                  IF st.raised THEN "stats_failed" ELSE "recorded",
                                  TRUE, srules[rule_id], ev)
    /\ UNCHANGED <<rules, scheduler_instance, jobs, nextId, lastCall, deleted,
                   nReloads, eng, stopped, appended, frame, singletonVars>>

----------------------------------------------------------------------------
(* The program: requests and job firings *)

Next ==
    \/ \E data \in CreateInputs, wfail \in BOOLEAN : ApiCreateRule(data, wfail)
    \/ \E rule_id \in KnownIds, data \in UpdateInputs, wfail \in BOOLEAN :
           ApiUpdateRule(rule_id, data, wfail)
    \/ \E rule_id \in KnownIds, wfail \in BOOLEAN : ApiDeleteRule(rule_id, wfail)
    \/ \E rule_id \in KnownIds, fetchOk \in BOOLEAN, vms \in Batches,
          failing \in NoFailures, fault \in BOOLEAN, dur \in Durations, wfail \in BOOLEAN :
           ApiExecuteRule(rule_id, fetchOk, vms, failing, fault, dur, wfail)
    \/ \E rule_id \in KnownIds, fetchOk \in BOOLEAN, vms \in Batches,
          failing \in NoFailures, fault \in BOOLEAN, dur \in Durations, wfail \in BOOLEAN :
           ExecuteRule(rule_id, fetchOk, vms, failing, fault, dur, wfail)

Spec == Init /\ [][Next]_vars

----------------------------------------------------------------------------
(* Properties of Spec: the route layer, the scheduler and the executions *)

\* a rule the scheduler should hold a job for
Qualifies(rule) ==
    /\ rule.enabled
    /\ rule.schedule.enabled
    /\ rule.schedule.cron # <<>>
    /\ CronParses(rule.schedule.cron)

\* C3: once the scheduler exists, after every create, update and delete request (with
\* the scheduler call the route makes) a job is registered for a rule id if and only
\* if the route layer's store holds a rule with that id that is enabled, has an
\* enabled schedule and a non-empty cron that parses
C3_JobsMirrorStore ==
    scheduler_instance # 0 =>
        \A id \in KnownIds \cup jobs :
            id \in jobs <=> (id \in DOMAIN rules /\ Qualifies(rules[id]))

C6_FiringOfMissingOrDisabledIsNoOp ==
    [][(/\ lastExec' # lastExec
        /\ lastExec'.kind = "fire"
        /\ \/ lastExec'.rule_id \notin DOMAIN srules
           \/ ~srules[lastExec'.rule_id].enabled)
       => (/\ ~lastExec'.fetched
           /\ lastExec'.calls = <<>>
           /\ srules' = srules
           /\ rules' = rules
           /\ file' = file
           /\ history' = history)]_vars

\* C6's case: the job of a disabled rule has fired
C6_Witness ==
    /\ lastExec.kind = "fire"
    /\ lastExec.rule_id \in DOMAIN srules
    /\ ~srules[lastExec.rule_id].enabled

\* the number of history entries of a rule
HistoryLen(h, rule_id) == IF rule_id \in DOMAIN h THEN Len(h[rule_id]) ELSE 0

\* C9: an execution of an existing rule that fails (a firing of an enabled rule, or a
\* manual execute request) appends one entry to the rule's history and sets last_run
\* of the rule in the store the execution reads
C9_FailedExecutionIsRecorded ==
    [][(/\ lastExec' # lastExec
        /\ lastExec'.failed
        /\ \/ /\ lastExec'.kind = "fire"
              /\ lastExec'.rule_id \in DOMAIN srules
              /\ srules[lastExec'.rule_id].enabled
           \/ /\ lastExec'.kind = "manual"
              /\ lastExec'.rule_id \in DOMAIN rules)
       => (/\ HistoryLen(history', lastExec'.rule_id)
                  = HistoryLen(history, lastExec'.rule_id) + 1
           /\ IF lastExec'.kind = "fire"
              THEN srules'[lastExec'.rule_id].last_run = clock
              ELSE rules'[lastExec'.rule_id].last_run = clock)]_vars

----------------------------------------------------------------------------
(* SpecStore: the Rule Store alone, driven by direct calls of its methods *)

\* the rules handed to create_rule
StoreCreateInputs ==
    {[name |-> n, enabled |-> TRUE, conditions |-> CondRunning, actions |-> a,
      schedule |-> sc] :
        n \in {"A", "B", ""}, a \in {ActWeb, ActNone}, sc \in {ScheduleOff, ScheduleBad}}

\* the dicts handed to update_rule
StoreUpdateInputs ==
    {[name |-> "A"],
     [name |-> "B"],
     [name |-> ""],
     [description |-> "edited"],
     [enabled |-> FALSE, conditions |-> CondUnknownOperator],
     [actions |-> ActNone],
     [actions |-> ActDb],
     [schedule |-> ScheduleBad],
     [description |-> "renumbered", id |-> 0, created_at |-> 0, last_run |-> 1,
      stats |-> [total_matches |-> 9, tags_added |-> 9, tags_removed |-> 9,
                 last_execution_time |-> 9]]}

\* the record of a direct call
Call(op, raised) == [op |-> op, raised |-> raised, flip |-> ~lastCall.flip]

schedulerVars == <<scheduler_instance, srules, jobs, nReloads>>

\* storage.create_rule(rule)
StoreCreate(data, wfail) ==
    /\ clock < MaxClock
    /\ clock' = clock + 1
    /\ LET out == create_rule(rules, file, RuleOfData(data, nextId, clock), wfail)
       IN /\ rules' = out.rules
          /\ file' = out.file
          /\ nextId' = IF nextId \in DOMAIN out.rules THEN nextId + 1 ELSE nextId
          /\ lastCall' = Call("create", out.raised)
    /\ UNCHANGED <<history, lastExec, deleted, eng, stopped, appended, frame, schedulerVars, singletonVars>>

\* storage.update_rule(rule_id, updates)
StoreUpdate(rule_id, updates, wfail) ==
    /\ clock < MaxClock
    /\ clock' = clock + 1
    /\ LET out == update_rule(rules, file, rule_id, updates, clock, wfail)
       IN /\ rules' = out.rules
          /\ file' = out.file
          /\ lastCall' = Call("update", out.raised)
    /\ UNCHANGED <<history, nextId, lastExec, deleted, eng, stopped, appended, frame, schedulerVars, singletonVars>>

\* storage.delete_rule(rule_id)
StoreDelete(rule_id, wfail) ==
    /\ clock < MaxClock
    /\ clock' = clock + 1
    /\ LET out == delete_rule(rules, file, rule_id, wfail)
       IN /\ rules' = out.rules
          /\ file' = out.file
          /\ lastCall' = Call("delete", out.raised)
    /\ UNCHANGED <<history, nextId, lastExec, deleted, eng, stopped, appended, frame, schedulerVars, singletonVars>>

\* the results handed to update_rule_stats: one with matches and tags, one with a match
\* and no tag, both of an evaluation made now
StatsResults(rule_id, now) ==
    {[ExecutionResult(rule_id, "A", now) EXCEPT
          !.matched_vms = <<100, 101>>,
          !.tags_added = (100 :> <<"web">>) @@ (101 :> <<"web", "db">>),
          !.tags_removed = (100 :> <<"db">>),
          !.execution_time = 2],
     [ExecutionResult(rule_id, "A", now) EXCEPT
          !.matched_vms = <<100>>,
          !.execution_time = 1]}

\* the record of a direct update_rule_stats call
StatsCall(rule_id, raised) ==
    [op |-> "stats", raised |-> raised, flip |-> ~lastCall.flip, rule_id |-> rule_id]

\* storage.update_rule_stats(rule_id, result)
StoreRecordStats(rule_id, result, wfail) ==
    /\ clock < MaxClock
    /\ clock' = clock + 1
    /\ \E out \in {update_rule_stats(rules, file, rule_id, result, wfail)} :
          /\ rules' = out.rules
          /\ file' = out.file
          /\ lastCall' = StatsCall(rule_id, out.raised)
    /\ appended' = IF rule_id \in DOMAIN rules THEN DictAppend(appended, rule_id, result)
                   ELSE appended
    /\ UNCHANGED <<history, nextId, lastExec, deleted, eng, stopped, frame, schedulerVars,
                   singletonVars>>

NextStore ==
    \/ \E data \in StoreCreateInputs, wfail \in BOOLEAN : StoreCreate(data, wfail)
    \/ \E rule_id \in KnownIds, updates \in StoreUpdateInputs, wfail \in BOOLEAN :
           StoreUpdate(rule_id, updates, wfail)
    \/ \E rule_id \in KnownIds, wfail \in BOOLEAN : StoreDelete(rule_id, wfail)
    \/ \E rule_id \in KnownIds, wfail \in BOOLEAN :
           \E result \in StatsResults(rule_id, clock) :
               StoreRecordStats(rule_id, result, wfail)

SpecStore == Init /\ [][NextStore]_vars

\* C1: after any sequence of create, update and delete calls on the Rule Store,
\* failed calls included, no two rules of the store's collection have the same name
C1_NamesAreUnique ==
    \A a \in DOMAIN rules, b \in DOMAIN rules : a # b => rules[a].name # rules[b].name

\* C2: a create or update call that raises (validation failure, duplicate name, or a
\* failed write of the document) leaves the store's in-memory collection as it was
C2_FailedCallChangesNothing ==
    [][(/\ lastCall' # lastCall
        /\ lastCall'.op \in {"create", "update"}
        /\ lastCall'.raised)
       => rules' = rules]_vars

----------------------------------------------------------------------------
(* SpecReload: reload_schedules applied to a scheduler whose store and job    *)
(* index are drawn from bounded sets                                          *)

StoredIds == 1..MaxStored

\* what a stored rule can look like to the scheduler
ScheduleShapes ==
    {ScheduleOff, ScheduleHourly, ScheduleBad,
     [enabled |-> TRUE, cron |-> <<>>], [enabled |-> FALSE, cron |-> CronHourly]}

RuleShapes == [enabled : BOOLEAN, schedule : ScheduleShapes]

RuleNames == <<"A", "B", "C", "D">>

\* the stores: a rule of any shape under some of the ids
ReloadStores ==
    UNION {{[k \in D |-> [StoredRule EXCEPT !.id = k, !.name = RuleNames[k],
                                            !.enabled = shape[k].enabled,
                                            !.schedule = shape[k].schedule]] :
                shape \in [D -> RuleShapes]} : D \in SUBSET StoredIds}

\* a scheduler with some store and some jobs, about to reload
InitReload ==
    /\ file = EmptyDict
    /\ rules = EmptyDict
    /\ history = EmptyDict
    /\ appended = EmptyDict
    /\ frame = NoFrames
    /\ stopped = FALSE
    /\ scheduler_instance = 1
    /\ srules \in ReloadStores
    /\ jobs \in SUBSET (1..(MaxStored + 1))
    /\ nextId = MaxStored + 1
    /\ clock = 1
    /\ lastCall = NoCall
    /\ lastExec = NoExec
    /\ deleted = {}
    /\ pc = [t \in Threads |-> "idle"]
    /\ ret = [t \in Threads |-> 0]
    /\ lockHolder = 0
    /\ nReloads = 0
    /\ eng = NoEval

\* scheduler.reload_schedules()
Reload ==
    /\ lastCall.op = "none"
    /\ jobs' = reload_schedules(jobs, srules)
    /\ nReloads' = nReloads + 1
    /\ lastCall' = [op |-> "reload", raised |-> FALSE, flip |-> TRUE, jobs_before |-> jobs]
    /\ UNCHANGED <<rules, file, history, scheduler_instance, srules, nextId, clock,
                   lastExec, deleted, eng, stopped, appended, frame, singletonVars>>

NextReload == Reload

SpecReload == InitReload /\ [][NextReload]_vars

\* C7: after reload_schedules returns, whatever jobs were registered before, the rule
\* ids with a job are exactly the rules of the scheduler's store that are enabled,
\* have an enabled schedule and a non-empty cron that parses
C7_ReloadRegistersQualifyingRules ==
    lastCall.op = "reload" =>
        jobs = {id \in DOMAIN srules : Qualifies(srules[id])}

\* C7's case: reloaded with a stale job registered before, a rule whose cron does not
\* parse skipped, and another rule scheduled
C7_Witness ==
    /\ lastCall.op = "reload"
    /\ \E id \in lastCall.jobs_before : id \notin jobs
    /\ \E id \in DOMAIN srules :
           /\ srules[id].enabled
           /\ srules[id].schedule = ScheduleBad
           /\ id \notin jobs
    /\ \E id \in DOMAIN srules : Qualifies(srules[id]) /\ id \in jobs

----------------------------------------------------------------------------
(* SpecSingleton: get_scheduler() called by several threads, one statement a  *)
(* step                                                                       *)

\* a thread calls get_scheduler(), for the first time or again
CallGetScheduler(t) ==
    /\ pc[t] \in {"idle", "done"}
    /\ pc' = [pc EXCEPT ![t] = "check1"]
    /\ UNCHANGED <<rules, file, history, nextId, clock, lastCall, lastExec, deleted, eng, stopped, appended, frame,
                   schedulerVars, ret, lockHolder>>

\* if scheduler_instance is None: (outside the lock)
FirstCheck(t) ==
    /\ pc[t] = "check1"
    /\ pc' = [pc EXCEPT ![t] = IF scheduler_instance = 0 THEN "lock" ELSE "return"]
    /\ UNCHANGED <<rules, file, history, nextId, clock, lastCall, lastExec, deleted, eng, stopped, appended, frame,
                   schedulerVars, ret, lockHolder>>

\* with scheduler_lock: (enter)
Acquire(t) ==
    /\ pc[t] = "lock"
    /\ lockHolder = 0
    /\ lockHolder' = t
    /\ pc' = [pc EXCEPT ![t] = "check2"]
    /\ UNCHANGED <<rules, file, history, nextId, clock, lastCall, lastExec, deleted, eng, stopped, appended, frame,
                   schedulerVars, ret>>

\* the second check always passing
second_check_skipped(inst) == TRUE

\* if scheduler_instance is None: (under the lock)
second_check(inst) == inst = 0

\* the second check, and scheduler_instance = RuleScheduler() when it passes
CheckAndConstruct(t) ==
    /\ pc[t] = "check2"
    /\ IF second_check(scheduler_instance)
       THEN LET built == RuleScheduler(file)
            IN /\ scheduler_instance' = nReloads + 1
               /\ srules' = built.srules
               /\ jobs' = built.jobs
               /\ nReloads' = nReloads + 1
       ELSE UNCHANGED schedulerVars
    /\ pc' = [pc EXCEPT ![t] = "unlock"]
    /\ UNCHANGED <<rules, file, history, nextId, clock, lastCall, lastExec, deleted, eng, stopped, appended, frame,
                   ret, lockHolder>>

\* with scheduler_lock: (exit)
Release(t) ==
    /\ pc[t] = "unlock"
    /\ lockHolder' = 0
    /\ pc' = [pc EXCEPT ![t] = "return"]
    /\ UNCHANGED <<rules, file, history, nextId, clock, lastCall, lastExec, deleted, eng, stopped, appended, frame,
                   schedulerVars, ret>>

\* return scheduler_instance
Return(t) ==
    /\ pc[t] = "return"
    /\ ret' = [ret EXCEPT ![t] = scheduler_instance]
    /\ pc' = [pc EXCEPT ![t] = "done"]
    /\ UNCHANGED <<rules, file, history, nextId, clock, lastCall, lastExec, deleted, eng, stopped, appended, frame,
                   schedulerVars, lockHolder>>

NextSingleton ==
    \E t \in Threads :
        \/ CallGetScheduler(t)
        \/ FirstCheck(t)
        \/ Acquire(t)
        \/ CheckAndConstruct(t)
        \/ Release(t)
        \/ Return(t)

SpecSingleton == Init /\ [][NextSingleton]_vars

\* C8: however the threads' calls of get_scheduler() interleave, at most one
\* RuleScheduler is constructed, with one reload, and every call returns it
C8_OneSchedulerForAll ==
    /\ nReloads <= 1
    /\ scheduler_instance = nReloads
    /\ \A t \in Threads : ret[t] # 0 => ret[t] = 1

\* C8's case: one thread has built the scheduler and returned it while another, which
\* found no scheduler at its first check, holds the lock at the second check
C8_Witness ==
    \E t \in Threads, u \in Threads :
        /\ t # u
        /\ pc[t] = "done"
        /\ ret[t] = 1
        /\ pc[u] = "check2"

----------------------------------------------------------------------------
(* SpecEngine: one evaluate_rule call on a rule, a batch and an environment    *)
(* drawn from bounded sets                                                     *)

CondStopped ==
    [operator |-> "AND",
     rules |-> <<[field |-> <<"status">>, operator |-> "not_equals",
                  value |-> PyStr("running")]>>]

ActSwap == [add_tags |-> <<"Web">>, remove_tags |-> <<"db">>,
            else_add_tags |-> <<"db">>, else_remove_tags |-> <<"web">>]

\* actions that only add one tag to the matched resources
ActUpper == [add_tags |-> <<"Web">>]
ActSpaced == [add_tags |-> <<" db">>]
ActJoined == [add_tags |-> <<"a;b">>]

\* actions that add a tag and remove it
ActBoth == [add_tags |-> <<"web">>, remove_tags |-> <<"Web">>]

\* the rules evaluated
EngineRules ==
    {[StoredRule EXCEPT !.conditions = RuleConditionGroup_from_dict(c),
                        !.actions = RuleAction_from_dict(a)] :
        c \in {CondRunning, CondStopped},
        a \in {ActWeb, ActDb, ActSwap, ActUpper, ActSpaced, ActJoined, ActBoth}}

\* the batches of resources
EngineBatches ==
    {<<Vm(100, "running", <<"">>), Vm(101, "running", <<"db">>)>>,
     <<Vm(100, "Running", <<"Web">>), Vm(101, "stopped", <<"db">>),
       Vm(102, "running", <<" db", "web">>)>>,
     <<Vm(100, "stopped", <<"web">>), Vm(101, "running", <<"">>),
       Vm(102, "stopped", <<"">>)>>,
     <<Vm(100, "running", <<"">>),
       [vmid |-> 101, type |-> "qemu", status |-> "running", tags |-> <<"">>]>>}

\* the records carry the keys the live loops read: vm['vmid'], vm['node'], vm['type']
WellFormed(vms) ==
    \A i \in 1..Len(vms) : {"vmid", "node", "type"} \subseteq DOMAIN vms[i]

\* the sets of vmids whose update_vm_tags call fails
Failings == SUBSET {100, 101, 102}

\* retryable: whether the failures of update_vm_tags are retryable ones (connection
\* error, timeout, 5xx) or client errors (4xx)
EngineInputs ==
    [rule : EngineRules, vms : EngineBatches, failing : Failings, dry_run : BOOLEAN,
     fault : BOOLEAN, dur : Durations, retryable : BOOLEAN]

\* an evaluation is about to be made
InitEngine ==
    /\ file = EmptyDict
    /\ rules = EmptyDict
    /\ history = EmptyDict
    /\ appended = EmptyDict
    /\ frame = NoFrames
    /\ stopped = FALSE
    /\ scheduler_instance = 0
    /\ srules = EmptyDict
    /\ jobs = {}
    /\ nextId = 1
    /\ clock = 1
    /\ lastCall = NoCall
    /\ lastExec = NoExec
    /\ deleted = {}
    /\ pc = [t \in Threads |-> "idle"]
    /\ ret = [t \in Threads |-> 0]
    /\ lockHolder = 0
    /\ nReloads = 0
    /\ \E inp \in EngineInputs :
           eng = [phase |-> "in", inp |-> inp, out |-> NoneV, first |-> NoneV]

\* engine.evaluate_rule(rule, vms, dry_run)
Evaluate ==
    /\ eng.phase = "in"
    /\ eng' = [phase |-> "out", inp |-> eng.inp,
               out |-> evaluate_rule(eng.inp.rule, eng.inp.vms, eng.inp.dry_run,
                                     eng.inp.failing, eng.inp.fault, clock, eng.inp.dur),
               first |-> NoneV]
    /\ UNCHANGED <<rules, file, history, nextId, clock, lastCall, lastExec, deleted,
                   appended, frame, stopped, schedulerVars, singletonVars>>

\* the lists a set can be listed as
Orderings(S) == {s \in [1..Cardinality(S) -> S] : Range(s) = S}

\* the tag strings update_vm_tags may have been sent for a set of tags: the tags joined
\* in some order, the empty string for no tag
TagStrings(sent) == IF sent = {} THEN {<<"">>} ELSE Orderings(sent)

\* the batches get_all_vms can return after the calls of a live run all succeeded: each
\* resource called carries the tag string last sent for it, the others are unchanged
Inventories(vms, calls) ==
    LET Called(k) == {i \in 1..Len(calls) : calls[i].vmid = vms[k].vmid}
        LastOf(k) == calls[CHOOSE i \in Called(k) : \A j \in Called(k) : j <= i]
        Opts(k) == IF Called(k) = {} THEN {vms[k]}
                   ELSE {[vms[k] EXCEPT !.tags = str] : str \in TagStrings(LastOf(k).tags)}
    IN {inv \in [1..Len(vms) -> UNION {Opts(k) : k \in 1..Len(vms)}] :
           \A k \in 1..Len(vms) : inv[k] \in Opts(k)}

\* the calls of a live run all succeeded and the run did not fail
AllApplied(e) ==
    /\ ~e.inp.dry_run
    /\ e.out.result.success
    /\ \A i \in 1..Len(e.out.calls) : e.out.calls[i].vmid \notin e.inp.failing

\* engine.evaluate_rule(rule, vms, dry_run) again, on the inventory a live run whose
\* calls all succeeded has left
Reevaluate ==
    /\ eng.phase = "out"
    /\ AllApplied(eng)
    /\ \E inv \in Inventories(eng.inp.vms, eng.out.calls), dry_run \in BOOLEAN :
           eng' = [phase |-> "again",
                   inp |-> [eng.inp EXCEPT !.vms = inv, !.dry_run = dry_run],
                   out |-> evaluate_rule(eng.inp.rule, inv, dry_run, eng.inp.failing,
                                         FALSE, clock, eng.inp.dur),
                   first |-> [inp |-> eng.inp, out |-> eng.out]]
    /\ UNCHANGED <<rules, file, history, nextId, clock, lastCall, lastExec, deleted,
                   appended, frame, stopped, schedulerVars, singletonVars>>

NextEngine == Evaluate \/ Reevaluate

SpecEngine == InitEngine /\ [][NextEngine]_vars

\* the calls of an evaluation that failed
FailedCalls(calls, failing) == SelectSeq(calls, LAMBDA c : c.vmid \in failing)

\* C10: in a live run of a well-formed batch, each failed tag-mutation call appends an
\* error naming its resource, in the order of the calls; the calls made are those of
\* the same run with no failure, so every later resource is still attempted; and
\* the result keeps success = true
C10_UpdateFailureIsIsolated ==
    (eng.phase = "out" /\ ~eng.inp.dry_run /\ ~eng.inp.fault /\ WellFormed(eng.inp.vms)) =>
        LET failed == FailedCalls(eng.out.calls, eng.inp.failing)
            clean == evaluate_rule(eng.inp.rule, eng.inp.vms, FALSE, {}, FALSE, clock,
                                   eng.inp.dur)
        IN /\ eng.out.result.success
           /\ eng.out.result.errors = [i \in 1..Len(failed) |-> UpdateError(failed[i].vmid)]
           /\ eng.out.calls = clean.calls

\* C10's case: a live run in which the call for one resource failed and the call for
\* a later resource was made
C10_Witness ==
    /\ eng.phase = "out"
    /\ ~eng.inp.dry_run
    /\ ~eng.inp.fault
    /\ \E i \in 1..Len(eng.out.calls), j \in 1..Len(eng.out.calls) :
           /\ i < j
           /\ eng.out.calls[i].vmid \in eng.inp.failing
           /\ eng.out.calls[j].vmid \notin eng.inp.failing
    /\ eng.out.result.errors # <<>>

\* C11: a result with success = false carries exactly one error, the message of the
\* exception that aborted the evaluation
C11_FailedResultHasOneError ==
    (eng.phase = "out" /\ ~eng.out.result.success) =>
        eng.out.result.errors = <<ExceptionError>>

\* whether the rule's conditions match a record
Matches(rule, vm) == evaluate_conditions(rule.conditions, vm)

\* whether the rule defines ELSE actions
HasElse(rule) == rule.actions.else_add_tags # <<>> \/ rule.actions.else_remove_tags # <<>>

\* the tags of a list, lowercased
LowerAll(tags) == {Lower(t) : t \in Range(tags)}

\* the record of a batch with a vmid
VmOf(vms, vmid) == CHOOSE vm \in Range(vms) : vm.vmid = vmid

\* the tag set a record is meant to end with: its lowercased tags, plus add, minus rem
Target(vm, add, rem) == (LowerAll(parse_tags(vm.tags)) \cup LowerAll(add)) \ LowerAll(rem)

\* the tag set the THEN lists, and the ELSE lists, of a rule give a record
ThenTarget(rule, vm) == Target(vm, rule.actions.add_tags, rule.actions.remove_tags)
ElseTarget(rule, vm) == Target(vm, rule.actions.else_add_tags, rule.actions.else_remove_tags)

\* C12: in a live run of a rule with ELSE actions, each tag mutation sent for a matched
\* resource carries the outcome of the THEN lists and each one sent for an unmatched
\* resource the outcome of the ELSE lists; a resource gets at most one mutation, and
\* every resource whose tags the lists of its side change gets one
C12_ElseForUnmatchedThenForMatched ==
    (/\ eng.phase = "out" /\ ~eng.inp.dry_run /\ ~eng.inp.fault
     /\ WellFormed(eng.inp.vms) /\ HasElse(eng.inp.rule)) =>
        LET rule == eng.inp.rule
            vms == eng.inp.vms
            calls == eng.out.calls
            Side(vm) == IF Matches(rule, vm) THEN ThenTarget(rule, vm)
                        ELSE ElseTarget(rule, vm)
        IN /\ \A i \in 1..Len(calls) :
                  calls[i].tags = SentTags(Side(VmOf(vms, calls[i].vmid)))
           /\ \A i \in 1..Len(calls), j \in 1..Len(calls) :
                  calls[i].vmid = calls[j].vmid => i = j
           /\ \A k \in 1..Len(vms) :
                  Side(vms[k]) # LowerAll(parse_tags(vms[k].tags)) =>
                      \E i \in 1..Len(calls) : calls[i].vmid = vms[k].vmid

\* C12's case: a live run of a rule with ELSE actions sent a mutation for a matched and
\* for an unmatched resource, and the two sides give different tags
C12_Witness ==
    /\ eng.phase = "out" /\ ~eng.inp.dry_run /\ ~eng.inp.fault
    /\ WellFormed(eng.inp.vms) /\ HasElse(eng.inp.rule)
    /\ \E i \in 1..Len(eng.out.calls), j \in 1..Len(eng.out.calls) :
           /\ Matches(eng.inp.rule, VmOf(eng.inp.vms, eng.out.calls[i].vmid))
           /\ ~Matches(eng.inp.rule, VmOf(eng.inp.vms, eng.out.calls[j].vmid))
           /\ ThenTarget(eng.inp.rule, VmOf(eng.inp.vms, eng.out.calls[j].vmid))
                  # eng.out.calls[j].tags

\* the rule's only action is THEN add_tags = [X]
OnlyThenAdd(rule) ==
    /\ Len(rule.actions.add_tags) = 1
    /\ rule.actions.remove_tags = <<>>
    /\ rule.actions.else_add_tags = <<>>
    /\ rule.actions.else_remove_tags = <<>>

\* the tags a result reports for a resource in one of its maps
Reported(map, vmid) == IF vmid \in DOMAIN map THEN Range(map[vmid]) ELSE {}

\* C13: for a rule whose only action is THEN add_tags = [X], the evaluation made on the
\* inventory a successful live application has left reports X (lowercased) for each
\* matched resource under tags_already_present and never under tags_added
C13_ReevaluationReportsAlreadyPresent ==
    (eng.phase = "again" /\ OnlyThenAdd(eng.inp.rule)) =>
        LET X == Lower(eng.inp.rule.actions.add_tags[1])
            result == eng.out.result
        IN \A i \in 1..Len(result.matched_vms) :
               /\ X \in Reported(result.tags_already_present, result.matched_vms[i])
               /\ X \notin Reported(result.tags_added, result.matched_vms[i])

\* C14: the second live run, on the inventory a live run whose calls all succeeded has
\* left, issues no tag-mutation call
C14_SecondLiveRunIssuesNoCall ==
    (eng.phase = "again" /\ ~eng.inp.dry_run) => eng.out.calls = <<>>

\* C15: an evaluation with dry_run = true makes no tag-mutation call, whatever the
\* rule, the batch and the resources matched or unmatched
C15_DryRunMakesNoCall ==
    (eng.phase # "in" /\ eng.inp.dry_run) => eng.out.calls = <<>>

\* C15's case: a dry run that computed a change of tags for a matched resource (THEN)
\* and for an unmatched one (ELSE)
C15_Witness ==
    /\ eng.phase # "in"
    /\ eng.inp.dry_run
    /\ eng.out.result.success
    /\ \E v \in DOMAIN eng.out.result.tags_added \cup DOMAIN eng.out.result.tags_removed,
          w \in DOMAIN eng.out.result.tags_added \cup DOMAIN eng.out.result.tags_removed :
           /\ v \in Range(eng.out.result.matched_vms)
           /\ w \notin Range(eng.out.result.matched_vms)

\* the bookkeeping of a result: the matched ids and the three tag maps
Bookkeeping(result) ==
    [matched_vms |-> result.matched_vms, tags_added |-> result.tags_added,
     tags_removed |-> result.tags_removed,
     tags_already_present |-> result.tags_already_present]

\* C16: the dry run and the live run (every call succeeding) of a rule on a batch return
\* the same matched ids, tags_added, tags_removed and tags_already_present
C16_DryRunAndLiveRunAgree ==
    (eng.phase = "out" /\ ~eng.inp.fault /\ eng.inp.failing = {}
        /\ WellFormed(eng.inp.vms)) =>
        Bookkeeping(eng.out.result) =
            Bookkeeping(evaluate_rule(eng.inp.rule, eng.inp.vms, ~eng.inp.dry_run, {},
                                      FALSE, clock, eng.inp.dur).result)

----------------------------------------------------------------------------
(* SpecHistory: results appended to the execution history one after the      *)
(* other (every write of the history file succeeding), and read back with    *)
(* get_rule_history                                                          *)

\* the rule whose history grows past the cap, and another rule appended to once
HistoryRule == 1
OtherRule == 2

\* the limits get_rule_history is called with
HistoryLimits == 0..MaxAppends

InitHistory ==
    /\ file = EmptyDict
    /\ rules = EmptyDict
    /\ history = EmptyDict
    /\ appended = EmptyDict
    /\ frame = NoFrames
    /\ stopped = FALSE
    /\ scheduler_instance = 0
    /\ srules = EmptyDict
    /\ jobs = {}
    /\ nextId = 1
    /\ clock = 1
    /\ lastCall = NoCall
    /\ lastExec = NoExec
    /\ deleted = {}
    /\ pc = [t \in Threads |-> "idle"]
    /\ ret = [t \in Threads |-> 0]
    /\ lockHolder = 0
    /\ nReloads = 0
    /\ eng = NoEval

\* history.add_execution(result), the result being that of an evaluation made now
AppendResult(rule_id) ==
    /\ clock <= MaxAppends
    /\ rule_id = OtherRule => OtherRule \notin DOMAIN history
    /\ clock' = clock + 1
    /\ \E result \in {ExecutionResult(rule_id, "A", clock)} :
           /\ history' = add_execution(history, result)
           /\ appended' = DictAppend(appended, rule_id, result)
    /\ UNCHANGED <<rules, file, nextId, lastCall, lastExec, deleted, eng, stopped, frame,
                   schedulerVars, singletonVars>>

NextHistory == \E rule_id \in {HistoryRule, OtherRule} : AppendResult(rule_id)

SpecHistory == InitHistory /\ [][NextHistory]_vars

\* the smaller of two numbers
Min(a, b) == IF a < b THEN a ELSE b

\* the k results appended last for a rule, newest first
Newest(log, k) == [i \in 1..k |-> log[Len(log) - i + 1]]

----------------------------------------------------------------------------
(* SpecStore: the statistics of the stored rules *)

RECURSIVE SumSeq(_)
\* the sum of a list of numbers
SumSeq(s) == IF s = <<>> THEN 0 ELSE Head(s) + SumSeq(Tail(s))

\* the sum of f(result) over the results of a log
SumOver(log, f(_)) == SumSeq([i \in 1..Len(log) |-> f(log[i])])

\* the results recorded for a rule
Recorded(rule_id) == IF rule_id \in DOMAIN appended THEN appended[rule_id] ELSE <<>>

\* the counters of a rule are the sums over the results recorded for it, and last_run
\* and last_execution_time are those of the result recorded last
StatsAreSums(rule, log) ==
    /\ rule.stats.total_matches = SumOver(log, LAMBDA r : Len(r.matched_vms))
    /\ rule.stats.tags_added
           = SumOver(log, LAMBDA r : SumLens(r.tags_added, DOMAIN r.tags_added))
    /\ rule.stats.tags_removed
           = SumOver(log, LAMBDA r : SumLens(r.tags_removed, DOMAIN r.tags_removed))
    /\ log # <<>> => /\ rule.last_run = log[Len(log)].timestamp
                     /\ rule.stats.last_execution_time = log[Len(log)].execution_time

\* C18: after any sequence of create, update, delete and update_rule_stats calls, each
\* rule of the store has total_matches, tags_added and tags_removed equal to the sums
\* of the matched ids and of the tags of the results recorded for it, and the last_run
\* and last_execution_time of the result recorded last; and an update_rule_stats
\* call for an id not in the store changes neither the collection nor the file
C18_StatsAccumulate ==
    [][/\ \A rule_id \in DOMAIN rules' : StatsAreSums(rules'[rule_id], Recorded(rule_id)')
       /\ (/\ lastCall' # lastCall
           /\ lastCall'.op = "stats"
           /\ lastCall'.rule_id \notin DOMAIN rules)
          => (rules' = rules /\ file' = file /\ ~lastCall'.raised)]_vars

\* C18's case: two results with matches have been recorded for a rule of the store
C18_Witness ==
    \E rule_id \in DOMAIN rules :
        /\ Len(Recorded(rule_id)) >= 2
        /\ Len(Recorded(rule_id)[1].matched_vms) > 0
        /\ rules[rule_id].stats.total_matches > Len(Recorded(rule_id)[2].matched_vms)

\* C19: after any sequence of create, update, delete and update_rule_stats calls, every
\* rule of the store's collection passes validate(): a non-empty name, at least one
\* condition, at least one non-empty action list, a cron that parses when the schedule
\* is enabled
C19_StoredRulesAreValid ==
    \A rule_id \in DOMAIN rules : validate(rules[rule_id]) = <<>>

\* C20: whenever no store call is in progress, loading the rule file gives the
\* collection the store holds in memory
C20_FileEqualsCollection ==
    load_rules(file) = rules

\* C21: no call changes the id or created_at of a rule that stays in the store, and
\* only update_rule_stats changes its stats or last_run: update_rule leaves the four
\* fields alone whatever keys its dict carries
C21_UpdateKeepsIdentityAndStats ==
    [][\A rule_id \in DOMAIN rules \cap DOMAIN rules' :
           /\ rules'[rule_id].id = rules[rule_id].id
           /\ rules'[rule_id].created_at = rules[rule_id].created_at
           /\ lastCall'.op # "stats" =>
                  /\ rules'[rule_id].stats = rules[rule_id].stats
                  /\ rules'[rule_id].last_run = rules[rule_id].last_run]_vars

\* C21's case: update_rule has applied a dict carrying the keys id, created_at,
\* last_run and stats to a rule for which a result had been recorded
C21_Witness ==
    /\ lastCall.op = "update"
    /\ ~lastCall.raised
    /\ \E rule_id \in DOMAIN rules :
           /\ rules[rule_id].description = "renumbered"
           /\ Recorded(rule_id) # <<>>
           /\ rules[rule_id].stats.total_matches > 0

----------------------------------------------------------------------------
(* SpecOverlap: executions of one rule on several threads.  Thread 1 is the   *)
(* BackgroundScheduler's job thread (_execute_rule), the others are request   *)
(* threads (api_execute_rule); each evaluates the rule and hands the result   *)
(* to its ExecutionHistory's add_execution, which loads the history file,     *)
(* inserts the result and writes the file back, holding no lock.              *)

InitOverlap ==
    /\ file = EmptyDict
    /\ rules = EmptyDict
    /\ history = EmptyDict
    /\ appended = EmptyDict
    /\ frame = NoFrames
    /\ stopped = FALSE
    /\ scheduler_instance = 0
    /\ srules = EmptyDict
    /\ jobs = {}
    /\ nextId = 1
    /\ clock = 1
    /\ lastCall = NoCall
    /\ lastExec = NoExec
    /\ deleted = {}
    /\ pc = [t \in Threads |-> "idle"]
    /\ ret = [t \in Threads |-> 0]
    /\ lockHolder = 0
    /\ nReloads = 0
    /\ eng = NoEval

\* engine.evaluate_rule(rule, vms, dry_run=False) has returned its result on thread t
EvaluateOn(t) ==
    /\ pc[t] = "idle"
    /\ clock < MaxClock
    /\ clock' = clock + 1
    /\ frame' = [frame EXCEPT ![t] = [result |-> ExecutionResult(HistoryRule, "A", clock),
                                      history |-> NoneV]]
    /\ pc' = [pc EXCEPT ![t] = "evaluated"]
    /\ UNCHANGED <<rules, file, history, nextId, lastCall, lastExec, deleted, eng, stopped,
                   appended, schedulerVars, ret, lockHolder>>

\* add_execution, first statement: history = self._load_history()
LoadHistory(t) ==
    /\ pc[t] = "evaluated"
    /\ frame' = [frame EXCEPT ![t].history = history]
    /\ pc' = [pc EXCEPT ![t] = "loaded"]
    /\ UNCHANGED <<rules, file, history, nextId, clock, lastCall, lastExec, deleted, eng, stopped,
                   appended, schedulerVars, ret, lockHolder>>

\* add_execution, the rest: the result is inserted into the history loaded and
\* self._save_history(history) writes the file; the execution is complete
SaveHistory(t) ==
    /\ pc[t] = "loaded"
    /\ history' = add_execution(frame[t].history, frame[t].result)
    /\ appended' = DictAppend(appended, frame[t].result.rule_id, frame[t].result)
    /\ frame' = [frame EXCEPT ![t] = NoneV]
    /\ pc' = [pc EXCEPT ![t] = "idle"]
    /\ UNCHANGED <<rules, file, nextId, clock, lastCall, lastExec, deleted, eng, stopped,
                   schedulerVars, ret, lockHolder>>

NextOverlap == \E t \in Threads : EvaluateOn(t) \/ LoadHistory(t) \/ SaveHistory(t)

SpecOverlap == InitOverlap /\ [][NextOverlap]_vars

\* C22: when the executions of a rule made on the scheduler's thread and on request
\* threads have all completed, overlapping or not, the rule's history holds an entry
\* for each of them
C22_OverlappingAppendsAreBothKept ==
    (\A t \in Threads : pc[t] = "idle") =>
        \A i \in 1..Len(Recorded(HistoryRule)) :
            /\ HistoryRule \in DOMAIN history
            /\ Recorded(HistoryRule)[i] \in Range(history[HistoryRule])

----------------------------------------------------------------------------
(* SpecShutdown: a scheduler built on some store, whose jobs fire until       *)
(* shutdown() is called (by atexit)                                           *)

\* get_scheduler() has built the scheduler on a store of the file
InitShutdown ==
    /\ srules \in ReloadStores
    /\ file = srules
    /\ rules = srules
    /\ history = EmptyDict
    /\ appended = EmptyDict
    /\ frame = NoFrames
    /\ stopped = FALSE
    /\ scheduler_instance = 1
    /\ jobs = RuleScheduler(file).jobs
    /\ nextId = MaxStored + 1
    /\ clock = 1
    /\ lastCall = NoCall
    /\ lastExec = NoExec
    /\ deleted = {}
    /\ pc = [t \in Threads |-> "idle"]
    /\ ret = [t \in Threads |-> 0]
    /\ lockHolder = 0
    /\ nReloads = 1
    /\ eng = NoEval

\* RuleScheduler.shutdown: self.scheduler.shutdown(wait=False) stops the
\* BackgroundScheduler, which starts no job from then on; self.jobs is not touched
Shutdown ==
    /\ scheduler_instance # 0
    /\ ~stopped
    /\ stopped' = TRUE
    /\ UNCHANGED <<rules, file, history, nextId, clock, lastCall, lastExec, deleted, eng,
                   appended, frame, schedulerVars, singletonVars>>

NextShutdown ==
    \/ Shutdown
    \/ \E rule_id \in KnownIds, fetchOk \in BOOLEAN, vms \in Batches,
          failing \in NoFailures, fault \in BOOLEAN, dur \in Durations, wfail \in BOOLEAN :
           ExecuteRule(rule_id, fetchOk, vms, failing, fault, dur, wfail)

SpecShutdown == InitShutdown /\ [][NextShutdown]_vars

\* once shutdown() has completed, no job firing begins
NoFiringAfterShutdown == stopped => lastExec' = lastExec

\* once shutdown() has completed, the index of rule ids to jobs is empty
NoJobAfterShutdown == stopped => jobs = {}

\* C23: after shutdown() completes, no rule has a registered job (self.jobs is empty)
\* and no new job firing begins
C23_ShutdownCancelsJobs ==
    [][NoJobAfterShutdown' /\ NoFiringAfterShutdown]_vars

----------------------------------------------------------------------------
(* SpecEngine: the attempts made for a failing tag-mutation call *)

\* api.DEFAULT_RETRY_ATTEMPTS
DEFAULT_RETRY_ATTEMPTS == 3

\* the number of update_vm_tags calls made for a resource
Attempts(calls, vmid) == Len(SelectSeq(calls, LAMBDA c : c.vmid = vmid))

\* C24: in a live run, a tag-mutation call failing with a retryable failure is made
\* again, a bounded number of times, before the failure is reported for the resource,
\* and one failing with a client error is made once
C24_RetryableFailureIsRetried ==
    (eng.phase = "out" /\ ~eng.inp.dry_run /\ ~eng.inp.fault /\ WellFormed(eng.inp.vms)) =>
        \A i \in 1..Len(eng.out.calls) :
            LET vmid == eng.out.calls[i].vmid
            IN vmid \in eng.inp.failing =>
                   /\ UpdateError(vmid) \in Range(eng.out.result.errors)
                   /\ IF eng.inp.retryable
                      THEN /\ Attempts(eng.out.calls, vmid) > 1
                           /\ Attempts(eng.out.calls, vmid) <= DEFAULT_RETRY_ATTEMPTS
                      ELSE Attempts(eng.out.calls, vmid) = 1

\* the position of a resource in a batch
IndexOf(vms, vmid) == CHOOSE k \in 1..Len(vms) : vms[k].vmid = vmid

----------------------------------------------------------------------------
(* SpecConditions: _evaluate_conditions on a condition group and a resource, and *)
(* the numeric operators on two operands, drawn from bounded sets               *)

\* the longest condition list of a group
MaxConds == 2

\* the conditions of the groups
GroupConditions ==
    {[field |-> <<"status">>, operator |-> "equals", value |-> PyStr("running")],
     [field |-> <<"status">>, operator |-> "not_equals", value |-> PyStr("running")],
     [field |-> <<"type">>, operator |-> "equals", value |-> PyStr("qemu")],
     [field |-> <<"cores">>, operator |-> "equals", value |-> PyNum(4)],
     [field |-> <<"cores">>, operator |-> "not_equals", value |-> PyNum(4)]}

\* the condition groups as RuleConditionGroup.from_dict builds them
ConditionGroups ==
    {RuleConditionGroup_from_dict([operator |-> o, rules |-> r]) :
        o \in LogicalOperator,
        r \in UNION {[1..n -> GroupConditions] : n \in 0..MaxConds}}

\* the resources: with and without a core count
ConditionVms ==
    {Vm(100, "running", <<"">>) @@ [cores |-> 4],
     Vm(101, "stopped", <<"db">>) @@ [cores |-> 2],
     Vm(102, "Running", <<"web">>) @@ [cores |-> 3],
     Vm(103, "running", <<"">>)}

\* the operands of the numeric operators: numbers, numerals, other strings, None, a
\* dict, an int beyond the range of a float
Operands ==
    {PyNum(1), PyNum(3), PyStr("2"), PyStr(" 3 "), PyStr("abc"), PyStr(""), NoneV,
     [t |-> "dict", v |-> EmptyDict], PyBig}

ConditionInputs ==
    [group : ConditionGroups, vm : ConditionVms]

OperatorInputs ==
    [operator : NumericOperators, field_value : Operands, compare_value : Operands]

\* the field values of the string operators: strings in several letter cases, a number
\* and None
StringFieldValues ==
    {PyStr(v) : v \in {"web", "Web", "WEB", "we", "straße", "STRASSE", "none", "on"}}
        \cup {PyNum(1), NoneV}

\* their comparison values: the same, and lists of them
StringCompareValues ==
    StringFieldValues
        \cup {PyList(<<>>), PyList(<<PyStr("Web"), PyStr("straße")>>),
              PyList(<<PyStr("WE"), PyNum(1)>>)}

\* a list is the comparison value of in and not_in only
StringInputs ==
    {inp \in [operator : StringOperators, field_value : StringFieldValues,
              compare_value : StringCompareValues] :
        inp.compare_value.t = "list" => inp.operator \in {"in", "not_in"}}

\* a group is about to be evaluated on a resource, or an operator applied to two operands
InitConditions ==
    /\ file = EmptyDict
    /\ rules = EmptyDict
    /\ history = EmptyDict
    /\ appended = EmptyDict
    /\ frame = NoFrames
    /\ stopped = FALSE
    /\ scheduler_instance = 0
    /\ srules = EmptyDict
    /\ jobs = {}
    /\ nextId = 1
    /\ clock = 1
    /\ lastCall = NoCall
    /\ lastExec = NoExec
    /\ deleted = {}
    /\ pc = [t \in Threads |-> "idle"]
    /\ ret = [t \in Threads |-> 0]
    /\ lockHolder = 0
    /\ nReloads = 0
    /\ \/ \E inp \in ConditionInputs : eng = [phase |-> "group", inp |-> inp, out |-> NoneV]
       \/ \E inp \in OperatorInputs : eng = [phase |-> "operands", inp |-> inp, out |-> NoneV]
       \/ \E inp \in StringInputs : eng = [phase |-> "strings", inp |-> inp, out |-> NoneV]

\* self._evaluate_conditions(rule.conditions, vm)
EvaluateConditions ==
    /\ eng.phase = "group"
    /\ eng' = [phase |-> "matched", inp |-> eng.inp,
               out |-> evaluate_conditions(eng.inp.group, eng.inp.vm)]
    /\ UNCHANGED <<rules, file, history, nextId, clock, lastCall, lastExec, deleted,
                   appended, frame, stopped, schedulerVars, singletonVars>>

\* _evaluate_condition's op_func(field_value, condition.value) for one of the numeric
\* operators: the outcome of the function and the value of the condition
ApplyOperator ==
    /\ eng.phase = "operands"
    /\ \E outcome \in {NumericOp(eng.inp.operator, eng.inp.field_value,
                                 eng.inp.compare_value)} :
           eng' = [phase |-> "compared", inp |-> eng.inp,
                   out |-> [outcome |-> outcome, condition |-> Caught(outcome)]]
    /\ UNCHANGED <<rules, file, history, nextId, clock, lastCall, lastExec, deleted,
                   appended, frame, stopped, schedulerVars, singletonVars>>

\* _evaluate_condition's op_func(field_value, condition.value) for one of the string
\* operators
ApplyStringOperator ==
    /\ eng.phase = "strings"
    /\ eng' = [phase |-> "tested", inp |-> eng.inp,
               out |-> StringOp(eng.inp.operator, eng.inp.field_value,
                                eng.inp.compare_value)]
    /\ UNCHANGED <<rules, file, history, nextId, clock, lastCall, lastExec, deleted,
                   appended, frame, stopped, schedulerVars, singletonVars>>

NextConditions == EvaluateConditions \/ ApplyOperator \/ ApplyStringOperator

SpecConditions == InitConditions /\ [][NextConditions]_vars

\* the indices of the conditions of a group that are true for a resource
TrueConditions(group, vm) ==
    {i \in 1..Len(group.conditions) : evaluate_condition(group.conditions[i], vm)}

\* C26: a group with no conditions matches no resource; a non-empty AND group matches a
\* resource exactly when every one of its conditions is true for it, a non-empty OR
\* group exactly when at least one is
C26_GroupMatchesAllOrAny ==
    eng.phase = "matched" =>
        LET group == eng.inp.group
            true == TrueConditions(group, eng.inp.vm)
        IN /\ group.conditions = <<>> => ~eng.out
           /\ (group.conditions # <<>> /\ group.operator = "AND") =>
                  (eng.out <=> true = 1..Len(group.conditions))
           /\ (group.conditions # <<>> /\ group.operator = "OR") =>
                  (eng.out <=> true # {})

\* C26's case: an OR group of two conditions, one true and one false for the resource,
\* has matched it
C26_Witness ==
    /\ eng.phase = "matched"
    /\ eng.inp.group.operator = "OR"
    /\ Len(eng.inp.group.conditions) = 2
    /\ Cardinality(TrueConditions(eng.inp.group, eng.inp.vm)) = 1
    /\ eng.out = TRUE

\* whether evaluate_rule on the batch of this one resource reports it as matched
MatchedAlone(rule, vm) ==
    evaluate_rule(rule, <<vm>>, TRUE, {}, FALSE, 1, 1).result.matched_vms = <<vm.vmid>>

\* C27: when the partition of the batch completes, matched_vms lists, in input order,
\* the ids of exactly the resources that satisfy the rule's conditions, and a resource
\* is matched in the batch exactly when it is matched evaluated alone
C27_MatchedIdsAreThoseSatisfying ==
    (eng.phase = "out" /\ ~eng.inp.fault) =>
        \E satisfying \in {SelectSeq(eng.inp.vms, LAMBDA vm : Matches(eng.inp.rule, vm))} :
            /\ eng.out.result.matched_vms =
                   [i \in 1..Len(satisfying) |-> satisfying[i].vmid]
            /\ \A k \in 1..Len(eng.inp.vms) :
                   \E alone \in {MatchedAlone(eng.inp.rule, eng.inp.vms[k])} :
                       alone <=> eng.inp.vms[k].vmid \in Range(eng.out.result.matched_vms)

\* C27's case: two resources of the batch are matched and one between them is not
C27_Witness ==
    /\ eng.phase = "out"
    /\ ~eng.inp.fault
    /\ Len(eng.inp.vms) = 3
    /\ eng.out.result.matched_vms = <<eng.inp.vms[1].vmid, eng.inp.vms[3].vmid>>

\* the vmids a result reports in one of its tag maps
ReportedIds(result) ==
    DOMAIN result.tags_added \cup DOMAIN result.tags_removed
        \cup DOMAIN result.tags_already_present

\* C28: an evaluation of a rule with no ELSE action issues no tag-mutation call for an
\* unmatched resource and reports it in none of tags_added, tags_removed and
\* tags_already_present
C28_NoElseLeavesUnmatchedUntouched ==
    (eng.phase = "out" /\ ~HasElse(eng.inp.rule)) =>
        \A k \in 1..Len(eng.inp.vms) :
            ~Matches(eng.inp.rule, eng.inp.vms[k]) =>
                /\ \A i \in 1..Len(eng.out.calls) :
                       eng.out.calls[i].vmid # eng.inp.vms[k].vmid
                /\ eng.inp.vms[k].vmid \notin ReportedIds(eng.out.result)

\* C28's case: a live run of a rule with no ELSE action has called a matched resource
\* and left an unmatched one, whose tags are not all lowercase, alone
C28_Witness ==
    /\ eng.phase = "out"
    /\ ~eng.inp.dry_run
    /\ ~HasElse(eng.inp.rule)
    /\ eng.out.calls # <<>>
    /\ \E k \in 1..Len(eng.inp.vms) :
           /\ ~Matches(eng.inp.rule, eng.inp.vms[k])
           /\ LowerAll(eng.inp.vms[k].tags) # Range(eng.inp.vms[k].tags)

----------------------------------------------------------------------------
(* SpecRecent: get_recent_executions on a stored history drawn from bounded  *)
(* sets                                                                       *)

\* the longest history of a rule
MaxEntries == 2

\* the timestamps of a rule's stored results: newest first, as add_execution inserts
\* them, two results of the same instant allowed
StampLists ==
    {ts \in UNION {[1..n -> 1..MaxClock] : n \in 1..MaxEntries} :
        \A i \in 1..(Len(ts) - 1) : ts[i] >= ts[i + 1]}

\* the histories of one rule; execution_time tells its results apart
RuleHistories(rule_id) ==
    {[i \in 1..Len(ts) |-> [ExecutionResult(rule_id, "A", ts[i])
                               EXCEPT !.execution_time = i]] : ts \in StampLists}

\* the stored histories: each rule that has run has a non-empty list
StoredHistories ==
    UNION {{h \in [D -> UNION {RuleHistories(r) : r \in D}] :
               \A r \in D : h[r] \in RuleHistories(r)} :
           D \in SUBSET {HistoryRule, OtherRule}}

\* the limits get_recent_executions is called with
RecentLimits == 0..(2 * MaxEntries + 1)

\* a history is stored and get_recent_executions(limit) is about to be called
InitRecent ==
    /\ file = EmptyDict
    /\ rules = EmptyDict
    /\ appended = EmptyDict
    /\ frame = NoFrames
    /\ stopped = FALSE
    /\ scheduler_instance = 0
    /\ srules = EmptyDict
    /\ jobs = {}
    /\ nextId = 1
    /\ clock = MaxClock
    /\ lastCall = NoCall
    /\ lastExec = NoExec
    /\ deleted = {}
    /\ pc = [t \in Threads |-> "idle"]
    /\ ret = [t \in Threads |-> 0]
    /\ lockHolder = 0
    /\ nReloads = 0
    /\ history \in StoredHistories
    /\ \E order \in Orderings(DOMAIN history), limit \in RecentLimits :
           eng = [phase |-> "stored", inp |-> [order |-> order, limit |-> limit],
                  out |-> NoneV]

\* history.get_recent_executions(limit)
GetRecentExecutions ==
    /\ eng.phase = "stored"
    /\ eng' = [phase |-> "recent", inp |-> eng.inp,
               out |-> get_recent_executions(history, eng.inp.order, eng.inp.limit)]
    /\ UNCHANGED <<rules, file, history, nextId, clock, lastCall, lastExec, deleted,
                   appended, frame, stopped, schedulerVars, singletonVars>>

NextRecent == GetRecentExecutions

SpecRecent == InitRecent /\ [][NextRecent]_vars

\* the place of a stored result in the list collected from all the rules
PlaceOf(all, execution) == CHOOSE k \in 1..Len(all) : all[k] = execution

\* C29: get_recent_executions(limit), for a limit >= 0, returns at most limit entries,
\* each a different stored result of some rule, latest timestamp first, results of the
\* same instant in the order they were collected in, and no stored result left out is
\* later than a returned one
C29_RecentAreTheLatest ==
    eng.phase = "recent" =>
        \E all \in {Collect(history, eng.inp.order)} :
            /\ Len(eng.out) <= eng.inp.limit
            /\ Range(eng.out) \subseteq Range(all)
            /\ Cardinality(Range(eng.out)) = Len(eng.out)
            /\ \A i, j \in 1..Len(eng.out) :
                   i < j =>
                       /\ eng.out[i].timestamp >= eng.out[j].timestamp
                       /\ eng.out[i].timestamp = eng.out[j].timestamp =>
                              PlaceOf(all, eng.out[i]) < PlaceOf(all, eng.out[j])
            /\ \A left \in Range(all) \ Range(eng.out), kept \in Range(eng.out) :
                   left.timestamp <= kept.timestamp

\* C29's case: the call returned results of two rules, two of them of the same instant,
\* not in the order they were collected in, and left a stored result out
C29_Witness ==
    /\ eng.phase = "recent"
    /\ Len(eng.out) = eng.inp.limit
    /\ Len(eng.out) < Len(Collect(history, eng.inp.order))
    /\ eng.out # Take(Collect(history, eng.inp.order), eng.inp.limit)
    /\ \E i, j \in 1..Len(eng.out) :
           /\ i < j
           /\ eng.out[i].timestamp = eng.out[j].timestamp
           /\ eng.out[i].rule_id # eng.out[j].rule_id

\* whether an operand can be coerced to a number: a number within the range of a float,
\* or a numeral
Coerces(value) ==
    \/ value.t = "num"
    \/ value.t = "str" /\ value.v \in DOMAIN Numerals

\* the number an operand that coerces stands for
NumberOf(value) == IF value.t = "num" THEN value.v ELSE Numerals[value.v]

\* the comparison a numeric operator names
Compares(operator, a, b) ==
    CASE operator = "greater_than" -> a > b
      [] operator = "less_than" -> a < b
      [] operator = "greater_equals" -> a >= b
      [] operator = "less_equals" -> a <= b

\* C30: a numeric operator never raises; it returns false when one of its operands
\* cannot be coerced to a number, and the comparison of the two numbers otherwise
C30_NumericOperatorsNeverRaise ==
    eng.phase = "compared" =>
        /\ eng.out.outcome.exc = ""
        /\ IF Coerces(eng.inp.field_value) /\ Coerces(eng.inp.compare_value)
           THEN eng.out.outcome.value =
                    Compares(eng.inp.operator, NumberOf(eng.inp.field_value),
                             NumberOf(eng.inp.compare_value))
           ELSE eng.out.outcome.value = FALSE

\* a value with the letter case of its strings changed by str.upper()
Uppercased(value) ==
    CASE value.t = "str" -> PyStr(Upper(value.v))
      [] value.t = "list" ->
            PyList([i \in 1..Len(value.v) |->
                       IF value.v[i].t = "str" THEN PyStr(Upper(value.v[i].v))
                       ELSE value.v[i]])
      [] OTHER -> value

\* a value with the letter case of its strings changed by str.lower()
Lowercased(value) ==
    CASE value.t = "str" -> PyStr(Lower(value.v))
      [] value.t = "list" ->
            PyList([i \in 1..Len(value.v) |->
                       IF value.v[i].t = "str" THEN PyStr(Lower(value.v[i].v))
                       ELSE value.v[i]])
      [] OTHER -> value

\* the values a value becomes when its letter case is changed
CaseChanged(value) == {value, Uppercased(value), Lowercased(value)}

\* C31: the result of equals, not_equals, contains, not_contains, in and not_in is the
\* same after the letter case of the field value or of the comparison value is changed
C31_StringOperatorsIgnoreCase ==
    eng.phase = "tested" =>
        \A f \in CaseChanged(eng.inp.field_value), c \in CaseChanged(eng.inp.compare_value) :
            StringOp(eng.inp.operator, f, c) = eng.out

----------------------------------------------------------------------------
(* SpecTags: parse_tags and format_tags applied in turn to a tag string drawn *)
(* from bounded sets                                                          *)

\* the most segments of a tag string
MaxSegs == 3

\* the times a string is parsed and formatted again
MaxRounds == 2

\* the segments between the semicolons of a tag string: empty, blank, padded, plain
TagSegments == {"", " ", "db", " db", "web", "Web"}

\* the semicolon-delimited strings
TagStringInputs == UNION {[1..n -> TagSegments] : n \in 1..MaxSegs}

\* a tag string is about to be parsed
InitTags ==
    /\ file = EmptyDict
    /\ rules = EmptyDict
    /\ history = EmptyDict
    /\ appended = EmptyDict
    /\ frame = NoFrames
    /\ stopped = FALSE
    /\ scheduler_instance = 0
    /\ srules = EmptyDict
    /\ jobs = {}
    /\ nextId = 1
    /\ clock = 1
    /\ lastCall = NoCall
    /\ lastExec = NoExec
    /\ deleted = {}
    /\ pc = [t \in Threads |-> "idle"]
    /\ ret = [t \in Threads |-> 0]
    /\ lockHolder = 0
    /\ nReloads = 0
    /\ \E str \in TagStringInputs :
           eng = [phase |-> "tags", strings |-> <<str>>, parsed |-> <<>>]

\* format_tags(parse_tags(s)) of the last string: `parsed` collects the lists parsed,
\* `strings` the strings formatted
ParseThenFormat ==
    /\ eng.phase = "tags"
    /\ Len(eng.strings) <= MaxRounds
    /\ \E tags \in {parse_tags(eng.strings[Len(eng.strings)])} :
           eng' = [eng EXCEPT !.parsed = Append(@, tags),
                              !.strings = Append(@, format_tags(tags))]
    /\ UNCHANGED <<rules, file, history, nextId, clock, lastCall, lastExec, deleted,
                   appended, frame, stopped, schedulerVars, singletonVars>>

NextTags == ParseThenFormat

SpecTags == InitTags /\ [][NextTags]_vars

\* C32: formatting the parse of a string gives a string that parsing and formatting again
\* leaves as it is, and no parsed tag is empty or made of whitespace only
C32_ParseFormatIsFixedPoint ==
    eng.phase = "tags" =>
        /\ \A k \in 2..(Len(eng.strings) - 1) : eng.strings[k + 1] = eng.strings[k]
        /\ \A k \in 1..Len(eng.parsed) :
               \A i \in 1..Len(eng.parsed[k]) : Strip(eng.parsed[k][i]) # ""

\* C32's case: a string with a blank segment and a padded tag was parsed and formatted
\* twice, and the first round changed it
C32_Witness ==
    /\ eng.phase = "tags"
    /\ Len(eng.strings) = 3
    /\ " " \in Range(eng.strings[1])
    /\ " db" \in Range(eng.strings[1])
    /\ eng.strings[2] # eng.strings[1]
    /\ eng.parsed[1] # <<>>

----------------------------------------------------------------------------
(* SpecRoundTrip: ConditionalRule.to_dict and from_dict applied in turn to a  *)
(* rule drawn from bounded sets.  JSON null is the empty string <<>> here.    *)

\* datetime.fromisoformat() of a string isoformat() wrote
fromisoformat(str) ==
    IF Len(str) = 2 THEN str[1] * TicksPerSecond
    ELSE str[1] * TicksPerSecond + str[3]

\* RuleConditionGroup.to_dict: the conditions go under the key "rules"
RuleConditionGroup_to_dict(group) ==
    [operator |-> group.operator, rules |-> group.conditions]

\* RuleAction.to_dict
RuleAction_to_dict(actions) ==
    [add_tags |-> actions.add_tags, remove_tags |-> actions.remove_tags,
     else_add_tags |-> actions.else_add_tags,
     else_remove_tags |-> actions.else_remove_tags]

\* RuleSchedule.to_dict
RuleSchedule_to_dict(schedule) == [enabled |-> schedule.enabled, cron |-> schedule.cron]

\* ConditionalRule.to_dict
ConditionalRule_to_dict(rule) ==
    [id |-> rule.id,
     name |-> rule.name,
     description |-> rule.description,
     enabled |-> rule.enabled,
     conditions |-> RuleConditionGroup_to_dict(rule.conditions),
     actions |-> RuleAction_to_dict(rule.actions),
     schedule |-> RuleSchedule_to_dict(rule.schedule),
     created_at |-> isoformat(rule.created_at),
     updated_at |-> isoformat(rule.updated_at),
     last_run |-> IF rule.last_run # 0 THEN isoformat(rule.last_run) ELSE <<>>,
     stats |-> rule.stats]

\* ConditionalRule.from_dict leaving last_run as the constructor set it
ConditionalRule_from_dict_never_run(data, fresh_id, now) ==
    LET base == RuleOfData(data, IF "id" \in DOMAIN data /\ data.id # 0
                                 THEN data.id ELSE fresh_id, now)
        r1 == IF "created_at" \in DOMAIN data
              THEN [base EXCEPT !.created_at = fromisoformat(data.created_at)] ELSE base
        r2 == IF "updated_at" \in DOMAIN data
              THEN [r1 EXCEPT !.updated_at = fromisoformat(data.updated_at)] ELSE r1
    IN IF "stats" \in DOMAIN data THEN [r2 EXCEPT !.stats = data.stats] ELSE r2

\* ConditionalRule.from_dict: the constructor with the id of the dict, or a fresh one,
\* and the time of the call, then each part the dict carries
ConditionalRule_from_dict(data, fresh_id, now) ==
    LET base == RuleOfData(data, IF "id" \in DOMAIN data /\ data.id # 0
                                 THEN data.id ELSE fresh_id, now)
        r1 == IF "created_at" \in DOMAIN data
              THEN [base EXCEPT !.created_at = fromisoformat(data.created_at)] ELSE base
        r2 == IF "updated_at" \in DOMAIN data
              THEN [r1 EXCEPT !.updated_at = fromisoformat(data.updated_at)] ELSE r1
        r3 == IF "last_run" \in DOMAIN data /\ data.last_run # <<>>
              THEN [r2 EXCEPT !.last_run = fromisoformat(data.last_run)] ELSE r2
    IN IF "stats" \in DOMAIN data THEN [r3 EXCEPT !.stats = data.stats] ELSE r3

\* the statistics of a rule that never ran and of one that did
StatsShapes ==
    {[total_matches |-> 0, tags_added |-> 0, tags_removed |-> 0, last_execution_time |-> 0],
     [total_matches |-> 3, tags_added |-> 2, tags_removed |-> 1, last_execution_time |-> 1]}

\* the rules serialized: stored rules of every shape, valid or not
RoundTripRules ==
    {[ConditionalRule(id, RuleNames[id], description, enabled, created_at) EXCEPT
         !.conditions = conditions, !.actions = RuleAction_from_dict(actions),
         !.schedule = schedule, !.updated_at = updated_at, !.last_run = last_run,
         !.stats = stats] :
        id \in 1..2, description \in {"", "renumbered"}, enabled \in BOOLEAN,
        conditions \in {RuleConditionGroup_from_dict(CondRunning),
                        RuleConditionGroup_from_dict([operator |-> "OR",
                            rules |-> CondRunning.rules \o CondStopped.rules]),
                        RuleConditionGroup_from_dict([operator |-> "OR"])},
        actions \in {ActWeb, ActSwap, ActNone},
        schedule \in {ScheduleOff, ScheduleHourly},
        created_at \in {1, 2}, updated_at \in {2, MaxClock},
        last_run \in {0, 2, MaxClock - 1}, stats \in StatsShapes}

\* a rule is about to be serialized
InitRoundTrip ==
    /\ file = EmptyDict
    /\ rules = EmptyDict
    /\ history = EmptyDict
    /\ appended = EmptyDict
    /\ frame = NoFrames
    /\ stopped = FALSE
    /\ scheduler_instance = 0
    /\ srules = EmptyDict
    /\ jobs = {}
    /\ nextId = 3
    /\ clock = MaxClock
    /\ lastCall = NoCall
    /\ lastExec = NoExec
    /\ deleted = {}
    /\ pc = [t \in Threads |-> "idle"]
    /\ ret = [t \in Threads |-> 0]
    /\ lockHolder = 0
    /\ nReloads = 0
    /\ \E rule \in RoundTripRules : eng = [phase |-> "rule", rule |-> rule]

\* rule.to_dict()
Serialize ==
    /\ eng.phase = "rule"
    /\ eng' = [phase |-> "dict", rule |-> eng.rule, data |-> ConditionalRule_to_dict(eng.rule)]
    /\ UNCHANGED <<rules, file, history, nextId, clock, lastCall, lastExec, deleted,
                   appended, frame, stopped, schedulerVars, singletonVars>>

\* ConditionalRule.from_dict(data)
Deserialize ==
    /\ eng.phase = "dict"
    /\ eng' = [phase |-> "loaded", rule |-> eng.rule, data |-> eng.data,
               loaded |-> ConditionalRule_from_dict(eng.data, nextId, clock)]
    /\ UNCHANGED <<rules, file, history, nextId, clock, lastCall, lastExec, deleted,
                   appended, frame, stopped, schedulerVars, singletonVars>>

NextRoundTrip == Serialize \/ Deserialize

SpecRoundTrip == InitRoundTrip /\ [][NextRoundTrip]_vars

\* C33: the rule from_dict builds from the to_dict of a rule has the rule's id, name,
\* description, enabled flag, condition group, action lists, schedule, created_at,
\* updated_at, last_run and stats
C33_RuleRoundTrips ==
    eng.phase = "loaded" =>
        /\ eng.loaded.id = eng.rule.id
        /\ eng.loaded.name = eng.rule.name
        /\ eng.loaded.description = eng.rule.description
        /\ eng.loaded.enabled = eng.rule.enabled
        /\ eng.loaded.conditions = eng.rule.conditions
        /\ eng.loaded.actions = eng.rule.actions
        /\ eng.loaded.schedule = eng.rule.schedule
        /\ eng.loaded.created_at = eng.rule.created_at
        /\ eng.loaded.updated_at = eng.rule.updated_at
        /\ eng.loaded.last_run = eng.rule.last_run
        /\ eng.loaded.stats = eng.rule.stats

\* C33's case: a rule that has run, with two conditions, ELSE actions and a schedule,
\* created before the time of the load, was serialized and deserialized
C33_Witness ==
    /\ eng.phase = "loaded"
    /\ eng.rule.last_run # 0
    /\ Len(eng.rule.conditions.conditions) = 2
    /\ eng.rule.actions.else_add_tags # <<>>
    /\ eng.rule.schedule.enabled
    /\ eng.rule.created_at # clock
    /\ eng.data.conditions.rules = eng.rule.conditions.conditions

----------------------------------------------------------------------------
(* SpecAccept: create_rule and update_rule on rules whose action lists hold   *)
(* tags of every shape                                                        *)

\* action lists with plain, padded, blank and empty tags
TagShapes ==
    {ActWeb, [add_tags |-> <<" db">>], [add_tags |-> <<"web">>, else_remove_tags |-> <<"">>],
     [remove_tags |-> <<" ">>]}

\* the rules handed to create_rule
AcceptCreateInputs ==
    {[name |-> n, conditions |-> CondRunning, actions |-> a] :
        n \in {"A", "B"}, a \in TagShapes}

\* the dicts handed to update_rule
AcceptUpdateInputs == {[actions |-> a] : a \in TagShapes} \cup {[name |-> "B"]}

NextAccept ==
    \/ \E data \in AcceptCreateInputs, wfail \in BOOLEAN : StoreCreate(data, wfail)
    \/ \E rule_id \in KnownIds, updates \in AcceptUpdateInputs, wfail \in BOOLEAN :
           StoreUpdate(rule_id, updates, wfail)

SpecAccept == Init /\ [][NextAccept]_vars

\* the tags of the four action lists of a rule
ActionTags(rule) ==
    Range(rule.actions.add_tags) \cup Range(rule.actions.remove_tags)
        \cup Range(rule.actions.else_add_tags) \cup Range(rule.actions.else_remove_tags)

\* C34: in every rule the store has accepted and written, each tag of the four action
\* lists is a non-empty string with no leading or trailing whitespace
C34_AcceptedTagsAreTrimmed ==
    \A rule_id \in DOMAIN file :
        \A tag \in ActionTags(file[rule_id]) : tag # "" /\ Strip(tag) = tag

\* the tags of the rule's action lists are tags as the rule format defines them:
\* non-empty, trimmed, without the separator
TagsWellFormed(rule) ==
    \A tag \in ActionTags(rule) : tag # "" /\ Strip(tag) = tag /\ Segments(tag) = {tag}

AbsentConditions(group, vm) ==
    {i \in 1..Len(group.conditions) :
        get_field_value(vm, group.conditions[i].field) = NoneV}

\* C36 as stated: a condition whose field is absent from the resource (the lookup
\* yields None) does not match it, whatever the operator and the comparison value: a
\* group made of such conditions does not match, and no operator applied to None
\* is true or raises
C36_AbsentFieldNeverMatches ==
    /\ (eng.phase = "matched" /\ eng.inp.group.conditions # <<>>
            /\ AbsentConditions(eng.inp.group, eng.inp.vm)
                   = 1..Len(eng.inp.group.conditions))
           => ~eng.out
    /\ (eng.phase = "tested" /\ eng.inp.field_value = NoneV) => ~eng.out
    /\ (eng.phase = "compared" /\ eng.inp.field_value = NoneV)
           => (eng.out.outcome.exc = "" /\ ~eng.out.condition)

----------------------------------------------------------------------------
(* SpecRetry: the wrapper of retry_on_failure around a function whose attempts *)
(* succeed or raise as a script drawn from a bounded set says                  *)

\* the largest max_attempts a wrapper is built with
MaxAttempts == 3

\* api.DEFAULT_RETRY_DELAY, in seconds
DEFAULT_RETRY_DELAY == 1

\* api.DEFAULT_BACKOFF_FACTOR
DEFAULT_BACKOFF_FACTOR == 2

\* the classes of requests.exceptions.RequestException an attempt raises
RequestExceptions == {"ConnectionError", "Timeout", "ReadTimeout", "HTTPError"}

\* an exception: its class, the retryable flag of a ProxmoxAPIError, the status code
\* of its response (0: no response)
Exc(cls, retryable, status_code) ==
    [cls |-> cls, retryable |-> retryable, status_code |-> status_code]

\* the attempt returned
Returned == Exc("", FALSE, 0)

\* api.is_retryable_error
is_retryable_error(e) ==
    IF e.cls = "ProxmoxAPIError" THEN e.retryable
    ELSE IF e.cls \in RequestExceptions THEN
        IF e.cls \in {"ConnectionError", "Timeout", "ReadTimeout"} THEN TRUE
        ELSE IF e.status_code # 0 THEN 500 <= e.status_code /\ e.status_code < 600
        ELSE FALSE
    ELSE FALSE

\* the condition of the break that ignores which attempt it is
leaves_loop_on_error_only(e, attempt, max_attempts) == ~is_retryable_error(e)

\* wrapper: the condition of the break in the except block
leaves_loop(e, attempt, max_attempts) ==
    ~is_retryable_error(e) \/ attempt = max_attempts - 1

\* what an attempt of the wrapped function does
AttemptOutcomes ==
    {Returned,
     Exc("ProxmoxAPIError", TRUE, 503),
     Exc("ProxmoxAPIError", FALSE, 404),
     Exc("Timeout", FALSE, 0),
     Exc("HTTPError", FALSE, 500),
     Exc("HTTPError", FALSE, 404)}

\* the wrappers and the outcomes of the function's successive attempts
RetryInputs ==
    [max_attempts : 0..MaxAttempts, script : [1..(MaxAttempts + 1) -> AttemptOutcomes]]

\* wrapper(*args, **kwargs) is entered: last_exception = None, current_delay = delay
InitRetry ==
    /\ file = EmptyDict
    /\ rules = EmptyDict
    /\ history = EmptyDict
    /\ appended = EmptyDict
    /\ frame = NoFrames
    /\ stopped = FALSE
    /\ scheduler_instance = 0
    /\ srules = EmptyDict
    /\ jobs = {}
    /\ nextId = 1
    /\ clock = 1
    /\ lastCall = NoCall
    /\ lastExec = NoExec
    /\ deleted = {}
    /\ pc = [t \in Threads |-> "idle"]
    /\ ret = [t \in Threads |-> 0]
    /\ lockHolder = 0
    /\ nReloads = 0
    /\ \E inp \in RetryInputs :
           eng = [phase |-> "loop", inp |-> inp, attempt |-> 0, made |-> 0,
                  last_exception |-> NoneV, current_delay |-> DEFAULT_RETRY_DELAY,
                  slept |-> 0, out |-> NoneV]

\* one pass of the for loop up to the sleep: func is called and returns, or raises and
\* the except block breaks or goes on to sleep
Attempt ==
    /\ eng.phase = "loop"
    /\ eng.attempt < eng.inp.max_attempts
    /\ \E e \in {eng.inp.script[eng.made + 1]} :
           eng' = IF e = Returned
                  THEN [eng EXCEPT !.phase = "returned", !.made = @ + 1, !.out = Returned]
                  ELSE [eng EXCEPT !.phase =
                                       IF leaves_loop(e, eng.attempt, eng.inp.max_attempts)
                                       THEN "after" ELSE "sleep",
                                   !.made = @ + 1,
                                   !.last_exception = e]
    /\ UNCHANGED <<rules, file, history, nextId, clock, lastCall, lastExec, deleted,
                   appended, frame, stopped, schedulerVars, singletonVars>>

\* time.sleep(current_delay); current_delay *= backoff_factor; the loop's next pass
Sleep ==
    /\ eng.phase = "sleep"
    /\ eng' = [eng EXCEPT !.phase = "loop",
                          !.slept = @ + eng.current_delay,
                          !.current_delay = @ * DEFAULT_BACKOFF_FACTOR,
                          !.attempt = @ + 1]
    /\ UNCHANGED <<rules, file, history, nextId, clock, lastCall, lastExec, deleted,
                   appended, frame, stopped, schedulerVars, singletonVars>>

\* range(max_attempts) is exhausted
Exhaust ==
    /\ eng.phase = "loop"
    /\ eng.attempt >= eng.inp.max_attempts
    /\ eng' = [eng EXCEPT !.phase = "after"]
    /\ UNCHANGED <<rules, file, history, nextId, clock, lastCall, lastExec, deleted,
                   appended, frame, stopped, schedulerVars, singletonVars>>

\* the statements after the loop: a request exception is raised as a ProxmoxAPIError
\* that is not retryable, any other as it is; raise None is a TypeError
Raise ==
    /\ eng.phase = "after"
    /\ eng' = [eng EXCEPT !.phase = "raised",
                          !.out = IF eng.last_exception = NoneV
                                  THEN Exc("TypeError", FALSE, 0)
                                  ELSE IF eng.last_exception.cls \in RequestExceptions
                                  THEN Exc("ProxmoxAPIError", FALSE,
                                           eng.last_exception.status_code)
                                  ELSE eng.last_exception]
    /\ UNCHANGED <<rules, file, history, nextId, clock, lastCall, lastExec, deleted,
                   appended, frame, stopped, schedulerVars, singletonVars>>

NextRetry == Attempt \/ Sleep \/ Exhaust \/ Raise

\* the wrapper is one thread's sequential code: each of its steps is taken
SpecRetry == InitRetry /\ [][NextRetry]_vars /\ WF_vars(NextRetry)

\* the wrapper has returned or raised
RetryDone == eng.phase \in {"returned", "raised"}

\* what holds of the attempts made so far
RetryAttemptsBounded ==
    /\ eng.made <= eng.inp.max_attempts
    /\ \A k \in 1..(eng.made - 1) :
           eng.inp.script[k] # Returned /\ is_retryable_error(eng.inp.script[k])
    /\ eng.phase = "returned" => (eng.made >= 1 /\ eng.inp.script[eng.made] = Returned)
    /\ (eng.phase = "raised" /\ eng.made >= 1) =>
           /\ eng.inp.script[eng.made] # Returned
           /\ \/ ~is_retryable_error(eng.inp.script[eng.made])
              \/ eng.made = eng.inp.max_attempts
    /\ (eng.made >= 1 /\ eng.made = eng.inp.max_attempts
            /\ eng.inp.script[eng.made] # Returned)
           => eng.phase \in {"after", "raised"}

\* C37: a wrapped call ends, having made at most max_attempts attempts: every attempt
\* followed by another one failed with a retryable error, a return follows a successful
\* attempt, and a failure of attempt number max_attempts is followed by the raise, with
\* no sleep and no further attempt
C37_RetryTerminatesWithinMaxAttempts ==
    [](RetryAttemptsBounded) /\ <>(RetryDone)

\* C37's case: the default number of attempts was made, each failed with a retryable
\* error, and the wrapper raised
C37_Witness ==
    /\ eng.phase = "raised"
    /\ eng.inp.max_attempts = DEFAULT_RETRY_ATTEMPTS
    /\ eng.made = DEFAULT_RETRY_ATTEMPTS
    /\ is_retryable_error(eng.inp.script[eng.made])
    /\ eng.slept > DEFAULT_RETRY_DELAY

\* the vmids the tag-mutation calls of an evaluation were made for
CalledIds(calls) == {calls[i].vmid : i \in 1..Len(calls)}

\* the vmids an evaluation recorded an added or a removed tag for
ChangedIds(result) ==
    {vmid \in DOMAIN result.tags_added \cup DOMAIN result.tags_removed :
        Reported(result.tags_added, vmid) \cup Reported(result.tags_removed, vmid) # {}}

\* C38 as stated: a live run that ran to its end made a tag-mutation call for exactly
\* the resources it recorded an added or a removed tag for
C38_CalledIffChangeRecorded ==
    (eng.phase = "out" /\ ~eng.inp.dry_run /\ ~eng.inp.fault /\ WellFormed(eng.inp.vms)) =>
        CalledIds(eng.out.calls) = ChangedIds(eng.out.result)

\* the vmids whose tag-mutation call was made and failed
FailedIds(calls, failing) == CalledIds(calls) \cap failing

\* C39 as stated: a live run records no added and no removed tag for a resource whose
\* tag-mutation call failed, so the numbers update_rule_stats adds to the rule's
\* tags_added and tags_removed counters are those of the resources whose call did not
\* fail
C39_RecordedOnlyIfCallSucceeded ==
    (eng.phase = "out" /\ ~eng.inp.dry_run /\ ~eng.inp.fault /\ WellFormed(eng.inp.vms)) =>
        LET result == eng.out.result
            failed == FailedIds(eng.out.calls, eng.inp.failing)
        IN /\ ChangedIds(result) \cap failed = {}
           /\ SumLens(result.tags_added, DOMAIN result.tags_added)
                  = SumLens(result.tags_added, DOMAIN result.tags_added \ failed)
           /\ SumLens(result.tags_removed, DOMAIN result.tags_removed)
                  = SumLens(result.tags_removed, DOMAIN result.tags_removed \ failed)

----------------------------------------------------------------------------
(* SpecFirings: create and update requests, some of which are rejected, and the *)
(* job firings that follow them                                                 *)

\* the request bodies of PUT /api/rules/<rule_id>: one that is accepted, and two that
\* validate() rejects (no action; no name)
FiringUpdateInputs ==
    {[actions |-> ActDb],
     [actions |-> ActNone],
     [name |-> "", actions |-> ActDb],
     [enabled |-> TRUE]}

NextFirings ==
    \/ \E data \in CreateInputs : ApiCreateRule(data, FALSE)
    \/ \E rule_id \in KnownIds, data \in FiringUpdateInputs :
           ApiUpdateRule(rule_id, data, FALSE)
    \/ \E rule_id \in KnownIds, fetchOk \in BOOLEAN, vms \in Batches,
          failing \in NoFailures, fault \in BOOLEAN, dur \in Durations :
           ExecuteRule(rule_id, fetchOk, vms, failing, fault, dur, FALSE)

SpecFirings == Init /\ [][NextFirings]_vars

\* C40 as stated: every rule definition a job firing evaluates was accepted by a
\* create or an update request, both of which accept a rule only if validate() finds
\* no error in it: so the definition evaluated passes validate()
C40_FiringsEvaluateAcceptedDefinitions ==
    (lastExec.kind = "fire" /\ lastExec.rule # NoneV) => validate(lastExec.rule) = <<>>

====
